---- MODULE Spec2Model ----
(***************************************************************************)
(* A model of the library code-generation agent: the orchestration graph   *)
(* (src/src/agent/graph.py, src/src/agent/nodes.py), the collaborators it  *)
(* calls (src/src/tools, src/src/llm) and the context manager that feeds   *)
(* the generation step (src/src/context).                                  *)
(*                                                                         *)
(* Representation.  A Python dict is a function whose domain is the set of *)
(* keys present, so an absent key is distinguishable from a stored value.  *)
(* library_name, task and generated_code are sequences of characters, so   *)
(* lower() and the substring test really compute.  Page contents, READMEs  *)
(* and code examples are atoms with a tabulated length.  Scores are scaled *)
(* integers: confidence in tenths, similarity in tenths, adjusted score in *)
(* hundredths.                                                             *)
(***************************************************************************)
EXTENDS Integers, Sequences, FiniteSets, TLC

VARIABLES
    pc,             \* the stage about to run, or "end" / "done" / "aborted"
    state,          \* the WorkflowState dict threaded through the stages
    trace,          \* stages whose execution has started, in order
    fault,          \* why the run aborted: "none", "generation", "embedding", "routing"
    route,          \* the last routing decision: the stage it followed, the key returned
    result,         \* what CodeGenAgent.generate_code returned (NoResult before)
    store,          \* rows of the embeddings table, in rowid order
    next_id,        \* the AUTOINCREMENT counter of the embeddings table
    ext,            \* collaborator calls issued in this run and how each ended
    obs,            \* what validate_code scored and manage_context retrieved
    max_iterations, \* settings.max_iterations as configured
    call,           \* the context-manager or store call under way: arguments, outcome
    parked          \* the runs suspended at an await while another one executes

vars == <<pc, state, trace, fault, route, result, store, next_id, ext, obs,
          max_iterations, call, parked>>

-----------------------------------------------------------------------------
(* Bounds of the model *)

MaxCodeLen == 2          \* longest generated_code the generation call returns
MaxCount == 12           \* largest iteration_count handed to should_continue
MaxSteps == 10           \* stage executions after which the model stops a run
MaxRows == 3             \* most rows of a table handed to retrieve_relevant_context
MaxTopK == 3             \* largest explicit top_k handed to a retrieval or a search
MaxOps == 4              \* inserts and clears made on one store
MaxChunks == 2           \* chunks one run's _store_chunks inserts
MaxTokens == 6           \* tokens of a text handed to chunk_text
MaxResponse == 4         \* characters of a completion handed to json.loads

-----------------------------------------------------------------------------
(* Python values *)

PyNone == "<None>"
EmptyDict == <<>>
EmptyList == <<>>

None == [some |-> FALSE]
Some(x) == [some |-> TRUE, val |-> x]

Has(d, k) == k \in DOMAIN d
Put(d, k, v) == [x \in (DOMAIN d) \cup {k} |-> IF x = k THEN v ELSE d[x]]
Get(d, k, default) == IF k \in DOMAIN d THEN d[k] ELSE default
OptGet(d, k) == IF k \in DOMAIN d THEN Some(d[k]) ELSE None

\* bool(x) for the lists and dicts the stages test
Truthy(x) == x # <<>>
\* bool(x) for an optional string
TruthyStr(x) == x # PyNone /\ x # ""

Range(seq) == {seq[i] : i \in 1..Len(seq)}
Last(seq) == seq[Len(seq)]

RECURSIVE Concat(_)
Concat(seqs) ==
    IF seqs = <<>> THEN <<>> ELSE Head(seqs) \o Concat(Tail(seqs))

RECURSIVE SetToSeqs(_)
\* every ordering of a finite set
SetToSeqs(S) ==
    IF S = {} THEN {<<>>}
    ELSE UNION {{<<x>> \o rest : rest \in SetToSeqs(S \ {x})} : x \in S}

-----------------------------------------------------------------------------
(* Character strings *)

\* the lower-case form of the upper-case letters the model's strings use
LowerChar(c) ==
    CASE c = "R" -> "r"
      [] c = "Q" -> "q"
      [] c = "U" -> "u"
      [] c = "E" -> "e"
      [] c = "H" -> "h"
      [] OTHER -> c

\* str.lower()
Lower(str) == [i \in 1..Len(str) |-> LowerChar(str[i])]

\* needle in hay
Contains(hay, needle) ==
    \E i \in 0..(Len(hay) - Len(needle)) :
        \A j \in 1..Len(needle) : hay[i + j] = needle[j]

RECURSIVE StringsUpTo(_, _)
\* the sequences over alphabet of length at most n
StringsUpTo(alphabet, n) ==
    IF n = 0 THEN {<<>>}
    ELSE LET shorter == StringsUpTo(alphabet, n - 1) IN
         shorter \cup {Append(w, c) : w \in shorter, c \in alphabet}

LibraryNames == {<<"R">>, <<"r", "q">>}
Tasks == {<<"U", "s", "a", "g", "e">>, <<"q">>}
GeneratedCodes == StringsUpTo({"r", "Q"}, MaxCodeLen)

-----------------------------------------------------------------------------
(* Settings (src/config/settings.py) *)

default_max_iterations == 10
max_context_tokens == 8000
chunk_size == 1000
chunk_overlap == 200
top_k_results == 5

ConfiguredMaxIterations == 1..MaxCount

-----------------------------------------------------------------------------
(* Text atoms: page contents, READMEs and code examples, with their length *)
(* and with the code blocks the extractor's patterns find in them.         *)

TextLen(t) ==
    CASE t = "docA" -> 800
      [] t = "docB" -> 600
      [] t = "readmeA" -> 900
      [] t = "exA" -> 120
      [] t = "exShort" -> 30
      [] t = "exMid" -> 12000
      [] t = "exBig" -> 40000
      [] t = "oldB" -> 700
      [] OTHER -> 0

\* re.findall(r"```(?:python)?\n(.*?)```", text), stripped, blanks dropped
extract_from_markdown(text) ==
    CASE text = "docA" -> <<"exA", "exShort">>
      [] text = "readmeA" -> <<"exA", "exBig">>
      [] OTHER -> <<>>

\* re.findall(r"<code[^>]*>(.*?)</code>", html), Python-like matches only
extract_from_html(html) ==
    CASE html = "docB" -> <<"exBig">>
      [] OTHER -> <<>>

-----------------------------------------------------------------------------
(* Collaborator outcomes the environment can produce *)

\* a completion either arrives with its text or the call raises (an API
\* error, or a completion without content, on which len(content) raises)
LLMOutcomes(contents) ==
    {[ok |-> FALSE, content |-> <<>>]} \cup {[ok |-> TRUE, content |-> c] : c \in contents}

SearchOutcomes ==
    { [ok |-> FALSE, response |-> EmptyDict],
      [ok |-> TRUE, response |-> EmptyDict],
      [ok |-> TRUE, response |-> [results |-> <<[content |-> "docA"]>>]],
      [ok |-> TRUE, response |-> [results |-> <<[url |-> "", content |-> "docA"]>>]],
      [ok |-> TRUE, response |-> [results |-> <<[url |-> "u1", content |-> "docA"]>>]] }

CrawlOutcomes ==
    { [ok |-> FALSE, response |-> EmptyDict],
      [ok |-> TRUE, response |-> [results |-> <<[url |-> "u1", content |-> "docA"]>>]],
      [ok |-> TRUE, response |-> [results |-> <<[url |-> "u1", content |-> "docB"],
                                                [url |-> "u2"]>>]] }

\* the three HTTP requests of GitHubAnalyzer.analyze
GitHubOutcomes ==
    { [repo |-> "raise", readme |-> "raise", structure |-> "raise"],
      [repo |-> "no_items", readme |-> "raise", structure |-> "raise"],
      [repo |-> "url", readme |-> "raise", structure |-> "raise"],
      [repo |-> "url", readme |-> "readmeA", structure |-> "raise"],
      [repo |-> "url", readme |-> "readmeA", structure |-> "ok"] }

-----------------------------------------------------------------------------
(* src/src/tools/documentation_crawler.py *)

\* what a call gave its caller: a value, or an exception that escaped it
Value(v) == [raised |-> FALSE, value |-> v]
Exception == [raised |-> TRUE, value |-> <<>>]

\* DocumentationCrawler.search: the response's results, [] on any exception
doc_search(out) ==
    Value(IF out.ok THEN Get(out.response, "results", EmptyList) ELSE EmptyList)

\* doc_crawl without its try/except: the client's exception escapes
doc_crawl_uncaught(out) ==
    IF out.ok THEN Value(out.response) ELSE Exception

\* DocumentationCrawler.crawl: the response, {} on any exception
doc_crawl(out) ==
    Value(IF out.ok THEN out.response ELSE EmptyDict)

(* src/src/tools/github_analyzer.py *)

search_repository(out) ==
    IF out.repo = "url" THEN "https://github.com/o/r" ELSE PyNone

get_readme(out) ==
    IF out.readme = "raise" THEN PyNone ELSE out.readme

get_repository_structure(out) ==
    IF out.structure = "raise" THEN EmptyDict
    ELSE [files |-> <<"README.md">>, has_examples |-> FALSE, has_docs |-> FALSE]

analyze(out) ==
    LET repo_url == search_repository(out) IN
    Value(IF ~TruthyStr(repo_url) THEN [found |-> FALSE]
          ELSE [found |-> TRUE,
                repository_url |-> repo_url,
                readme |-> get_readme(out),
                structure |-> get_repository_structure(out)])

(* src/src/tools/code_example_extractor.py *)

\* the examples gathered before deduplication
gathered_examples(crawled_data, github_info) ==
    LET results == IF Truthy(crawled_data)
                   THEN Get(crawled_data, "results", EmptyList) ELSE EmptyList
        fromDocs == Concat([i \in 1..Len(results) |->
                        LET content == Get(results[i], "content", "") IN
                        extract_from_markdown(content) \o extract_from_html(content)])
        fromReadme == IF Truthy(github_info) /\ TruthyStr(Get(github_info, "readme", PyNone))
                      THEN extract_from_markdown(github_info["readme"]) ELSE <<>>
    IN fromDocs \o fromReadme

\* CodeExampleExtractor.extract: list(set(examples)) has no defined order, so
\* every ordering of the kept examples is a possible return value
extract(crawled_data, github_info) ==
    SetToSeqs({ex \in Range(gathered_examples(crawled_data, github_info)) :
                  TextLen(ex) > 50})

(* src/src/llm/azure_client.py *)

\* generate with the exception swallowed and an empty completion returned
generate_swallows(out) ==
    Value(IF out.ok THEN out.content ELSE <<>>)

\* AzureLLMClient.generate: the completion text, or the exception re-raised
generate(out) ==
    IF out.ok THEN Value(out.content) ELSE Exception

\* json.loads of a response text whose characters are "{", "}", "k" (a member
\* "k": 1) and "x" (anything else): the dict of a well-formed object, and
\* JSONDecodeError raised for every other text
json_loads_str(json_str) ==
    CASE json_str = <<"{", "}">> -> Value(EmptyDict)
      [] json_str = <<"{", "k", "}">> -> Value([k |-> 1])
      [] OTHER -> Exception

\* generate_with_json without its except clause
generate_with_json_uncaught(out) ==
    LET response == generate(out) IN
    IF response.raised THEN Exception
    ELSE LET text == response.value
             opens == {i \in 1..Len(text) : text[i] = "{"}
             closes == {i \in 1..Len(text) : text[i] = "}"}
             json_start == IF opens = {} THEN -1
                           ELSE (CHOOSE i \in opens : \A j \in opens : i <= j) - 1
             json_end == IF closes = {} THEN 0
                         ELSE CHOOSE i \in closes : \A j \in closes : i >= j
         IN IF json_start >= 0 /\ json_end > json_start
            THEN json_loads_str(SubSeq(text, json_start + 1, json_end))
            ELSE Value(EmptyDict)

\* AzureLLMClient.generate_with_json: offsets count from 0, so json_start is
\* response.find('{') and json_end is response.rfind('}') + 1; the call to
\* generate stands outside the try
generate_with_json(out) ==
    LET response == generate(out) IN
    IF response.raised THEN Exception
    ELSE LET text == response.value
             opens == {i \in 1..Len(text) : text[i] = "{"}
             closes == {i \in 1..Len(text) : text[i] = "}"}
             json_start == IF opens = {} THEN -1
                           ELSE (CHOOSE i \in opens : \A j \in opens : i <= j) - 1
             json_end == IF closes = {} THEN 0
                         ELSE CHOOSE i \in closes : \A j \in closes : i >= j
         IN IF json_start >= 0 /\ json_end > json_start
            THEN LET parsed == json_loads_str(SubSeq(text, json_start + 1, json_end)) IN
                 IF parsed.raised THEN Value(EmptyDict) ELSE parsed
            ELSE Value(EmptyDict)

-----------------------------------------------------------------------------
(* src/src/context/database.py *)

\* the model's get_sentence_embedding_dimension(), scaled down (384 for
\* all-MiniLM-L6-v2)
dimension == 2

\* EmbeddingService.embed_text: model.encode(text).tolist(), a list of
\* `dimension` floats that is a fixed function of the text; the floats are
\* kept symbolic
embed_text(text) == [i \in 1..dimension |-> [of |-> text, component |-> i]]

\* embed_texts run with a model of another dimension than embed_text's
embed_texts_other_model(texts) ==
    [t \in 1..Len(texts) |->
        [i \in 1..(dimension + 1) |-> [of |-> texts[t], component |-> i]]]

\* EmbeddingService.embed_texts: the batch encoding, one vector per text
embed_texts(texts) == [t \in 1..Len(texts) |-> embed_text(texts[t])]

\* json.dumps of a dict of strings is the text of its key/value pairs, and
\* json.loads rebuilds the dict from them
json_dumps(d) == {<<k, d[k]>> : k \in DOMAIN d}
json_loads(j) == [k \in {p[1] : p \in j} |-> (CHOOSE p \in j : p[1] = k)[2]]

\* the metadata column: NULL for a falsy dict, its JSON text otherwise
metadata_column(metadata) ==
    IF Truthy(metadata) THEN Some(json_dumps(metadata)) ELSE None

\* insert writing NULL into the metadata column whatever it is given
insert_drops_metadata(db, text, embedding, metadata) ==
    [rows |-> Append(db.rows, [id |-> db.next_id, text |-> text,
                               embedding |-> embedding, metadata |-> None]),
     next_id |-> db.next_id + 1]

\* INSERT OR REPLACE on the text: a row holding the same text is overwritten
insert_replaces_same_text(db, text, embedding, metadata) ==
    LET kept == SelectSeq(db.rows, LAMBDA r : r.text # text) IN
    [rows |-> Append(kept, [id |-> db.next_id, text |-> text,
                            embedding |-> embedding,
                            metadata |-> metadata_column(metadata)]),
     next_id |-> db.next_id + 1]

\* VectorDatabase.insert: appends one row with the next AUTOINCREMENT id and
\* returns that id (db.next_id before the call).  The embedding values are
\* float32-representable, as the embedding model's are, so the float32 blob
\* holds them exactly.
insert(db, text, embedding, metadata) ==
    [rows |-> Append(db.rows, [id |-> db.next_id, text |-> text,
                               embedding |-> embedding,
                               metadata |-> metadata_column(metadata)]),
     next_id |-> db.next_id + 1]

\* clear that also deletes the table's row of sqlite_sequence
clear_resets_sequence(db) == [rows |-> <<>>, next_id |-> 1]

\* VectorDatabase.clear: DELETE FROM embeddings empties the table; the
\* AUTOINCREMENT counter (sqlite_sequence) is left as it is
clear(db) == [rows |-> <<>>, next_id |-> db.next_id]

\* the largest rowid ever handed out, in place of COUNT(*)
count_ever_inserted(db) == db.next_id - 1

\* VectorDatabase.count: SELECT COUNT(*) FROM embeddings
count(db) == Len(db.rows)

\* the rows `for row in cursor` yields for a SELECT with no ORDER BY: all rows, in
\* an order SQL leaves to the engine.  SQLite walks the table's b-tree, forwards
\* (ascending rowid) or, under PRAGMA reverse_unordered_selects, backwards.
cursor_rows(table) == {table, [i \in 1..Len(table) |-> table[Len(table) + 1 - i]]}

RECURSIVE SortDesc(_, _)
\* list.sort(key=lambda x: x[f], reverse=True): stable, descending
SortDesc(seq, f) ==
    IF Len(seq) <= 1 THEN seq
    ELSE LET x == Head(seq)
             rest == SortDesc(Tail(seq), f)
             n == Cardinality({i \in 1..Len(rest) : rest[i][f] > x[f]})
         IN SubSeq(rest, 1, n) \o <<x>> \o SubSeq(rest, n + 1, Len(rest))

\* results[:n]
Take(seq, n) == SubSeq(seq, 1, IF n < Len(seq) THEN n ELSE Len(seq))

\* search returning the first top_k rows fetched, unsorted
search_unsorted(rows, cos, top_k) ==
    LET results == [i \in 1..Len(rows) |->
                       [id |-> rows[i].id, text |-> rows[i].text,
                        similarity |-> cos[rows[i].embedding],
                        metadata |-> IF rows[i].metadata # None
                                     THEN json_loads(rows[i].metadata.val)
                                     ELSE EmptyDict]]
    IN Take(results, top_k)

\* VectorDatabase.search on the rows as fetched: cos gives the cosine
\* similarity (in tenths) of the query vector to each stored embedding
search(rows, cos, top_k) ==
    LET results == [i \in 1..Len(rows) |->
                       [id |-> rows[i].id, text |-> rows[i].text,
                        similarity |-> cos[rows[i].embedding],
                        metadata |-> IF rows[i].metadata # None
                                     THEN json_loads(rows[i].metadata.val)
                                     ELSE EmptyDict]]
    IN Take(SortDesc(results, "similarity"), top_k)

RECURSIVE dot(_, _)
\* np.dot of two vectors of one length
dot(vec1, vec2) ==
    IF vec1 = <<>> THEN 0
    ELSE Head(vec1) * Head(vec2) + dot(Tail(vec1), Tail(vec2))

\* np.linalg.norm, exact on the model's vectors (their squared norm is a square)
norm(vec) ==
    LET sq == dot(vec, vec) IN CHOOSE r \in 0..sq : r * r <= sq /\ (r + 1) * (r + 1) > sq

\* _cosine_similarity scoring a vector of zero norm as a perfect match
_cosine_similarity_zero_matches(vec1, vec2) ==
    LET dot_product == dot(vec1, vec2)
        norm1 == norm(vec1)
        norm2 == norm(vec2)
    IN IF norm1 = 0 \/ norm2 = 0 THEN 10
       ELSE (10 * dot_product) \div (norm1 * norm2)

\* VectorDatabase._cosine_similarity, in tenths
_cosine_similarity(vec1, vec2) ==
    LET dot_product == dot(vec1, vec2)
        norm1 == norm(vec1)
        norm2 == norm(vec2)
    IN IF norm1 = 0 \/ norm2 = 0 THEN 0
       ELSE (10 * dot_product) \div (norm1 * norm2)

SimilarityValues == {-5, 10}

\* the similarity oracles for the embeddings a table holds
CosineOracles(rows) ==
    [{rows[i].embedding : i \in 1..Len(rows)} -> SimilarityValues]

-----------------------------------------------------------------------------
(* src/src/context/chunker.py *)

\* SemanticChunker.chunk_text on a text that is one stripped paragraph no
\* longer than chunk_size, which every page content and README atom is
chunk_text(text) == <<text>>

(* The chunker on the characters of a text.  A character is a pair          *)
(* <<symbol, origin>>: the symbol is what the code sees, the origin is the   *)
(* offset the character has in the text handed to chunk_text (-1 for a       *)
(* separator that join adds), which no operator below looks at.  Offsets     *)
(* count from 0 as Python's do.                                              *)

Symbol(ch) == ch[1]

\* what str.strip() removes
IsSpace(ch) == Symbol(ch) \in {" ", "\n"}

\* str.strip()
strip(text) ==
    LET solid == {i \in 1..Len(text) : ~IsSpace(text[i])} IN
    IF solid = {} THEN <<>>
    ELSE SubSeq(text, CHOOSE i \in solid : \A j \in solid : i <= j,
                      CHOOSE i \in solid : \A j \in solid : i >= j)

\* a slice bound as Python reads it: counted from the end when negative, and
\* clipped to the text
SliceBound(text, i) ==
    IF i < 0 THEN (IF Len(text) + i < 0 THEN 0 ELSE Len(text) + i)
    ELSE (IF i > Len(text) THEN Len(text) ELSE i)

\* text[start:end]
Slice(text, start, end) ==
    SubSeq(text, SliceBound(text, start) + 1, SliceBound(text, end))

\* text.rfind(symbol, start, end): the highest offset in text[start:end] that
\* holds the symbol, -1 when there is none
rfind(text, symbol, start, end) ==
    LET found == {i \in SliceBound(text, start)..(SliceBound(text, end) - 1) :
                     Symbol(text[i + 1]) = symbol}
    IN IF found = {} THEN -1 ELSE CHOOSE i \in found : \A j \in found : i >= j

RECURSIVE re_split(_)
\* re.split(r'\n\n+', text): the pieces between the runs of two or more newlines
re_split(text) ==
    LET newline(i) == i \in 1..Len(text) /\ Symbol(text[i]) = "\n"
        runs == {i \in 1..Len(text) : newline(i) /\ newline(i + 1)}
    IN IF runs = {} THEN <<text>>
       ELSE LET first == CHOOSE i \in runs : \A j \in runs : i <= j
                last == CHOOSE i \in first..Len(text) :
                            /\ \A j \in first..i : newline(j)
                            /\ ~newline(i + 1)
            IN <<SubSeq(text, 1, first - 1)>> \o re_split(SubSeq(text, last + 1, Len(text)))

\* '\n\n'.join(paragraphs)
join(paragraphs) ==
    IF paragraphs = <<>> THEN <<>>
    ELSE Head(paragraphs)
         \o Concat([i \in 1..(Len(paragraphs) - 1) |->
                       << <<"\n", -1>>, <<"\n", -1>> >> \o paragraphs[i + 1]])

\* one pass of the loop of _split_by_semantic_boundaries over the paragraphs
add_paragraph(self, acc, piece) ==
    LET para == strip(piece)
        para_length == Len(para)
    IN IF para = <<>> THEN acc
       ELSE IF acc.current_length + para_length > self.chunk_size /\ acc.current_chunk # <<>>
       THEN IF self.chunk_overlap > 0 /\ Len(acc.current_chunk) > 1
            THEN LET overlap_text == Last(acc.current_chunk) IN
                 [chunks |-> Append(acc.chunks, join(acc.current_chunk)),
                  current_chunk |-> <<overlap_text, para>>,
                  current_length |-> Len(overlap_text) + para_length]
            ELSE [chunks |-> Append(acc.chunks, join(acc.current_chunk)),
                  current_chunk |-> <<para>>, current_length |-> para_length]
       ELSE [chunks |-> acc.chunks,
             current_chunk |-> Append(acc.current_chunk, para),
             current_length |-> acc.current_length + para_length]

RECURSIVE paragraphs_loop(_, _, _)
paragraphs_loop(self, acc, paragraphs) ==
    IF paragraphs = <<>> THEN acc
    ELSE paragraphs_loop(self, add_paragraph(self, acc, Head(paragraphs)), Tail(paragraphs))

\* SemanticChunker._split_by_semantic_boundaries
_split_by_semantic_boundaries(self, text) ==
    LET acc == paragraphs_loop(self, [chunks |-> <<>>, current_chunk |-> <<>>,
                                      current_length |-> 0], re_split(text))
    IN IF acc.current_chunk # <<>> THEN Append(acc.chunks, join(acc.current_chunk))
       ELSE acc.chunks

\* one pass of the window loop leaving chunk_overlap characters out after the
\* window instead of taking them again
next_window_no_overlap(self, text, start) ==
    LET text_length == Len(text)
        window_end == start + self.chunk_size
        sentence_end ==
            LET ends == {rfind(text, ".", start, window_end),
                         rfind(text, "!", start, window_end),
                         rfind(text, "?", start, window_end)}
            IN CHOOSE e \in ends : \A f \in ends : e >= f
        end == IF window_end < text_length /\ sentence_end > start
               THEN sentence_end + 1 ELSE window_end
    IN [chunk |-> strip(Slice(text, start, end)), end |-> end,
        start |-> IF end < text_length THEN end + self.chunk_overlap ELSE end]

\* one pass of the loop of _split_by_size: the window's chunk, its end and the
\* start of the next window
next_window(self, text, start) ==
    LET text_length == Len(text)
        window_end == start + self.chunk_size
        sentence_end ==
            LET ends == {rfind(text, ".", start, window_end),
                         rfind(text, "!", start, window_end),
                         rfind(text, "?", start, window_end)}
            IN CHOOSE e \in ends : \A f \in ends : e >= f
        end == IF window_end < text_length /\ sentence_end > start
               THEN sentence_end + 1 ELSE window_end
    IN [chunk |-> strip(Slice(text, start, end)), end |-> end,
        start |-> IF end < text_length THEN end - self.chunk_overlap ELSE end]

RECURSIVE windows_loop(_, _, _, _)
\* the loop of _split_by_size from the window start `start`; the next start is
\* a function of the start, so the loop runs for ever exactly when a start
\* comes back (seen holds the starts so far), and then nothing is returned
windows_loop(self, text, start, seen) ==
    IF ~(start < Len(text)) THEN [diverges |-> FALSE, chunks |-> <<>>, starts |-> <<>>]
    ELSE IF start \in seen THEN [diverges |-> TRUE, chunks |-> <<>>, starts |-> <<start>>]
    ELSE LET window == next_window(self, text, start)
             rest == windows_loop(self, text, window.start, seen \cup {start})
         IN [diverges |-> rest.diverges,
             chunks |-> (IF window.chunk # <<>> THEN <<window.chunk>> ELSE <<>>)
                         \o rest.chunks,
             starts |-> <<start>> \o rest.starts]

\* SemanticChunker._split_by_size
_split_by_size(self, text) == windows_loop(self, text, 0, {})

\* what a call of chunk_text leaves: semantic is the list of paragraph chunks,
\* split what became of each of them, a chunk absent from split being kept whole
gathered(semantic, split) ==
    LET part(i) == IF i \in DOMAIN split THEN split[i]
                   ELSE [diverges |-> FALSE, chunks |-> <<semantic[i]>>, starts |-> <<>>]
    IN [semantic |-> semantic,
        diverges |-> \E i \in DOMAIN split : split[i].diverges,
        chunks |-> Concat([i \in 1..Len(semantic) |-> part(i).chunks]),
        starts |-> Concat([i \in 1..Len(semantic) |->
                              IF part(i).starts = <<>> THEN <<>> ELSE <<part(i).starts>>])]

\* the loop of chunk_text over the paragraph chunks: one longer than
\* chunk_size goes through _split_by_size
split_large(self, chunks) ==
    gathered(chunks,
             [i \in 1..Len(chunks) |->
                 IF Len(chunks[i]) > self.chunk_size
                 THEN _split_by_size(self, chunks[i])
                 ELSE [diverges |-> FALSE, chunks |-> <<chunks[i]>>, starts |-> <<>>]])

\* chunk_text returning the paragraph chunks as they are
chunk_text_unsplit(self, text) ==
    gathered(_split_by_semantic_boundaries(self, text), <<>>)

\* SemanticChunker.chunk_text on the characters of a text: chunks is the list
\* returned, when the call returns at all, and starts lists, for each call of
\* _split_by_size, the window starts of its passes
SemanticChunker_chunk_text(self, text) ==
    split_large(self, _split_by_semantic_boundaries(self, text))

\* SemanticChunker(chunk_size, chunk_overlap): an argument of 0, like one left
\* out, is falsy and replaced by the setting
SemanticChunker(size, overlap) ==
    [chunk_size |-> IF size = 0 THEN chunk_size ELSE size,
     chunk_overlap |-> IF overlap = 0 THEN chunk_overlap ELSE overlap]

-----------------------------------------------------------------------------
(* src/src/context/manager.py *)

_process_documentation(documentation) ==
    LET results == Get(documentation, "results", EmptyList) IN
    Concat([i \in 1..Len(results) |->
        LET content == Get(results[i], "content", "")
            url == Get(results[i], "url", "")
            doc_chunks == IF content # "" THEN chunk_text(content) ELSE <<>>
        IN [j \in 1..Len(doc_chunks) |->
               [text |-> doc_chunks[j], source |-> url, type |-> "documentation"]]])

_process_readme(readme) ==
    LET readme_chunks == chunk_text(readme) IN
    [j \in 1..Len(readme_chunks) |->
        [text |-> readme_chunks[j], source |-> "github_readme", type |-> "readme"]]

\* f"example_{i}"
example_source(i) ==
    CASE i = 0 -> "example_0"
      [] i = 1 -> "example_1"
      [] i = 2 -> "example_2"
      [] OTHER -> "example_n"

\* _process_examples leaving out the examples longer than a chunk
_process_examples_up_to_chunk_size(examples) ==
    LET kept == SelectSeq(examples, LAMBDA example : TextLen(example) <= chunk_size) IN
    [i \in 1..Len(kept) |->
        [text |-> kept[i], source |-> example_source(i - 1), type |-> "code_example"]]

_process_examples(examples) ==
    [i \in 1..Len(examples) |->
        [text |-> examples[i], source |-> example_source(i - 1), type |-> "code_example"]]

RECURSIVE _store_rows(_, _)
\* the insert loop of _store_chunks; embeddings[i] is the encoding of texts[i]
\* whatever else the batch holds
_store_rows(db, chunks) ==
    IF chunks = <<>> THEN db
    ELSE _store_rows(insert(db, Head(chunks).text,
                            Head(embed_texts(<<Head(chunks).text>>)),
                            [source |-> Head(chunks).source, type |-> Head(chunks).type]),
                     Tail(chunks))

\* _store_chunks embedding each chunk just before its insert; a failing call
\* is the second one
_store_chunks_embeds_each(db, chunks, embed_ok) ==
    LET texts == [i \in 1..Len(chunks) |-> chunks[i].text] IN
    IF embed_ok
    THEN [raised |-> FALSE, db |-> _store_rows(db, chunks), embedded |-> Some(texts)]
    ELSE [raised |-> TRUE, db |-> _store_rows(db, <<Head(chunks)>>),
          embedded |-> Some(texts)]

\* _store_chunks: every text is embedded in one batch before the first insert;
\* embedded is the batch handed to embed_texts
_store_chunks(db, chunks, embed_ok) ==
    LET texts == [i \in 1..Len(chunks) |-> chunks[i].text] IN
    IF embed_ok
    THEN [raised |-> FALSE, db |-> _store_rows(db, chunks), embedded |-> Some(texts)]
    ELSE [raised |-> TRUE, db |-> db, embedded |-> Some(texts)]

all_chunks(documentation, github_info, code_examples) ==
    (IF Truthy(documentation) THEN _process_documentation(documentation) ELSE <<>>)
    \o (IF Truthy(github_info) /\ TruthyStr(Get(github_info, "readme", PyNone))
        THEN _process_readme(github_info["readme"]) ELSE <<>>)
    \o (IF Truthy(code_examples) THEN _process_examples(code_examples) ELSE <<>>)

\* index_content storing its chunks without testing that there are any
index_content_stores_always(db, documentation, github_info, code_examples, embed_ok) ==
    _store_chunks(db, all_chunks(documentation, github_info, code_examples), embed_ok)

\* ContextManager.index_content; embedded is None when embed_texts was not called
index_content(db, documentation, github_info, code_examples, embed_ok) ==
    LET chunks == all_chunks(documentation, github_info, code_examples) IN
    IF chunks # <<>> THEN _store_chunks(db, chunks, embed_ok)
    ELSE [raised |-> FALSE, db |-> db, embedded |-> None]

_estimate_tokens(text) == TextLen(text) \div 4

BoostKeywords ==
    { <<"e", "x", "a", "m", "p", "l", "e">>,
      <<"h", "o", "w", " ", "t", "o">>,
      <<"u", "s", "a", "g", "e">> }

\* _rank_and_filter looking for the keywords in the query as typed
_rank_and_filter_case_sensitive(results, query) ==
    LET needs_examples == \E keyword \in BoostKeywords : Contains(query, keyword)
        scored == [i \in 1..Len(results) |->
            [id |-> results[i].id, text |-> results[i].text,
             similarity |-> results[i].similarity, metadata |-> results[i].metadata,
             adjusted_score |->
                 IF needs_examples /\ Get(results[i].metadata, "type", PyNone) = "code_example"
                 THEN results[i].similarity * 13 ELSE results[i].similarity * 10]]
    IN SortDesc(scored, "adjusted_score")

\* ContextManager._rank_and_filter; adjusted_score is in hundredths
_rank_and_filter(results, query) ==
    LET query_lower == Lower(query)
        needs_examples == \E keyword \in BoostKeywords : Contains(query_lower, keyword)
        scored == [i \in 1..Len(results) |->
            [id |-> results[i].id, text |-> results[i].text,
             similarity |-> results[i].similarity, metadata |-> results[i].metadata,
             adjusted_score |->
                 IF needs_examples /\ Get(results[i].metadata, "type", PyNone) = "code_example"
                 THEN results[i].similarity * 13 ELSE results[i].similarity * 10]]
    IN SortDesc(scored, "adjusted_score")

RECURSIVE within_budget_overshoots(_, _, _)
\* the accumulation loop testing the budget before counting the text in
within_budget_overshoots(results, total_tokens, max_tokens) ==
    IF results = <<>> THEN <<>>
    ELSE LET text == Head(results).text
             tokens == _estimate_tokens(text)
         IN IF total_tokens <= max_tokens
            THEN <<text>> \o within_budget_overshoots(Tail(results), total_tokens + tokens,
                                                      max_tokens)
            ELSE <<>>

RECURSIVE within_budget_skips(_, _, _)
\* the accumulation loop with `continue` in place of `break`
within_budget_skips(results, total_tokens, max_tokens) ==
    IF results = <<>> THEN <<>>
    ELSE LET text == Head(results).text
             tokens == _estimate_tokens(text)
         IN IF total_tokens + tokens <= max_tokens
            THEN <<text>> \o within_budget_skips(Tail(results), total_tokens + tokens,
                                                 max_tokens)
            ELSE within_budget_skips(Tail(results), total_tokens, max_tokens)

RECURSIVE within_budget(_, _, _)
\* the accumulation loop of retrieve_relevant_context: stops at the first text
\* that would pass max_tokens
within_budget(results, total_tokens, max_tokens) ==
    IF results = <<>> THEN <<>>
    ELSE LET text == Head(results).text
             tokens == _estimate_tokens(text)
         IN IF total_tokens + tokens <= max_tokens
            THEN <<text>> \o within_budget(Tail(results), total_tokens + tokens, max_tokens)
            ELSE <<>>

\* ContextManager.retrieve_relevant_context; top_k_arg is None or Some(k),
\* fetched is the table's rows as the search's SELECT yields them, and the
\* locals query_embedding, results and filtered_results are returned beside
\* the value
retrieve_relevant_context(fetched, query, library_name, top_k_arg, embed_ok, cos) ==
    IF ~embed_ok
    THEN [raised |-> TRUE, value |-> <<>>, results |-> <<>>, filtered_results |-> <<>>,
          query_embedding |-> None]
    ELSE LET top_k == IF top_k_arg = None THEN top_k_results ELSE top_k_arg.val
             results == search(fetched, cos, top_k * 2)
             filtered_results == _rank_and_filter(results, query)
         IN [raised |-> FALSE,
             value |-> within_budget(Take(filtered_results, top_k), 0, max_context_tokens),
             results |-> results,
             filtered_results |-> filtered_results,
             query_embedding |-> Some(embed_text(library_name \o <<" ">> \o query))]

-----------------------------------------------------------------------------
(* src/src/agent/nodes.py: each stage maps the state and the outcome of its *)
(* collaborator calls to the returned state; raised names the exception    *)
(* that escaped the stage, "none" when it returned.                        *)

Returned(s) == [raised |-> "none", state |-> s, called |-> {}]
Raised(s, what) == [raised |-> what, state |-> s, called |-> {}]
\* the stage ended as `r` after issuing the collaborator call `name`
After(name, r) == [r EXCEPT !.called = {name}]

analyze_query(s, out) ==
    LET response == generate(out) IN
    After("analysis",
          IF response.raised THEN Raised(s, "generation")
          ELSE Returned(Put(Put(s, "messages", <<"human", "ai">>),
                            "next_action", "search_documentation")))

\* search_documentation naming analyze_github, the other key of its edge map
search_documentation_skips_crawl(s, out) ==
    LET search_results == doc_search(out) IN
    After("search",
          IF search_results.raised THEN Raised(s, "search")
          ELSE Returned(Put(Put(s, "search_results", search_results.value),
                            "next_action", "analyze_github")))

search_documentation(s, out) ==
    LET search_results == doc_search(out) IN
    After("search",
          IF search_results.raised THEN Raised(s, "search")
          ELSE Returned(Put(Put(s, "search_results", search_results.value),
                            "next_action", "crawl_documentation")))

\* crawl_documentation without the test of top_url
crawl_documentation_unchecked_url(s, out) ==
    IF ~Truthy(Get(s, "search_results", EmptyList))
    THEN Returned(Put(s, "next_action", "analyze_github"))
    ELSE LET crawled_data == doc_crawl(out) IN
         After("crawl",
               IF crawled_data.raised THEN Raised(s, "crawl")
               ELSE Returned(Put(Put(s, "crawled_documentation", crawled_data.value),
                                 "next_action", "analyze_github")))

\* crawl_documentation naming extract_examples when there is nothing to crawl
crawl_documentation_skips_github(s, out) ==
    IF ~Truthy(Get(s, "search_results", EmptyList))
    THEN Returned(Put(s, "next_action", "extract_examples"))
    ELSE LET top_url == Get(s["search_results"][1], "url", PyNone) IN
         IF ~TruthyStr(top_url)
         THEN Returned(Put(s, "next_action", "extract_examples"))
         ELSE LET crawled_data == doc_crawl(out) IN
              After("crawl",
                    IF crawled_data.raised THEN Raised(s, "crawl")
                    ELSE Returned(Put(Put(s, "crawled_documentation", crawled_data.value),
                                      "next_action", "analyze_github")))

crawl_documentation(s, out) ==
    IF ~Truthy(Get(s, "search_results", EmptyList))
    THEN Returned(Put(s, "next_action", "analyze_github"))
    ELSE LET top_url == Get(s["search_results"][1], "url", PyNone) IN
         IF ~TruthyStr(top_url)
         THEN Returned(Put(s, "next_action", "analyze_github"))
         ELSE LET crawled_data == doc_crawl(out) IN
              After("crawl",
                    IF crawled_data.raised THEN Raised(s, "crawl")
                    ELSE Returned(Put(Put(s, "crawled_documentation", crawled_data.value),
                                      "next_action", "analyze_github")))

analyze_github(s, out) ==
    LET github_info == analyze(out) IN
    After("repository",
          IF github_info.raised THEN Raised(s, "repository")
          ELSE Returned(Put(Put(s, "github_info", github_info.value),
                            "next_action", "extract_examples")))

\* extract_examples counting iterations downwards
extract_examples_counts_down(s, examples) ==
    Returned(Put(Put(Put(s, "code_examples", examples),
                     "iteration_count", s["iteration_count"] - 1),
                 "next_action", "manage_context"))

\* extract_examples replacing github_info by the examples it took from it
extract_examples_consumes_github(s, examples) ==
    Returned(Put(Put(Put(s, "code_examples", examples),
                     "github_info", EmptyDict),
                 "next_action", "manage_context"))

extract_examples(s, examples) ==
    Returned(Put(Put(s, "code_examples", examples),
                 "next_action", "manage_context"))

\* manage_context also returns the table as the two context-manager calls left
\* it; fetched is that table as the search's SELECT yields it
manage_context(s, db, index_ok, query_ok, cos, fetched) ==
    LET indexed == index_content(db,
                                 Get(s, "crawled_documentation", EmptyDict),
                                 Get(s, "github_info", EmptyDict),
                                 Get(s, "code_examples", EmptyList),
                                 index_ok)
    IN IF indexed.raised
       THEN [raised |-> "embedding", state |-> s, db |-> indexed.db]
       ELSE LET relevant_context ==
                    retrieve_relevant_context(fetched, s["task"], s["library_name"],
                                              None, query_ok, cos)
            IN IF relevant_context.raised
               THEN [raised |-> "embedding", state |-> s, db |-> indexed.db]
               ELSE [raised |-> "none",
                     state |-> Put(Put(s, "relevant_context", relevant_context.value),
                                   "next_action", "generate_code"),
                     db |-> indexed.db]

generate_code(s, out) ==
    LET response == generate(out) IN
    After("generation",
          IF response.raised THEN Raised(s, "generation")
          ELSE Returned(Put(Put(Put(s, "generated_code", response.value),
                                "messages", Append(s["messages"], "ai")),
                            "next_action", "validate_code")))

\* validate_code comparing without lower()
validate_code_case_sensitive(s) ==
    LET code == Get(s, "generated_code", <<>>) IN
    Returned(Put(IF ~Contains(code, s["library_name"])
                 THEN Put(Put(s, "confidence_score", 3),
                          "error_message", "Generated code may not use the specified library")
                 ELSE Put(s, "confidence_score", 8),
                 "next_action", "end"))

\* validate_code counting the pass it made
validate_code_counts(s) ==
    LET code == Get(s, "generated_code", <<>>) IN
    Returned(Put(Put(IF ~Contains(Lower(code), Lower(s["library_name"]))
                     THEN Put(Put(s, "confidence_score", 3),
                              "error_message", "Generated code may not use the specified library")
                     ELSE Put(s, "confidence_score", 8),
                     "iteration_count", Get(s, "iteration_count", 0) + 1),
                 "next_action", "end"))

\* validate_code setting error_message on both branches
validate_code_always_message(s) ==
    LET code == Get(s, "generated_code", <<>>) IN
    Returned(Put(IF ~Contains(Lower(code), Lower(s["library_name"]))
                 THEN Put(Put(s, "confidence_score", 3),
                          "error_message", "Generated code may not use the specified library")
                 ELSE Put(Put(s, "confidence_score", 8), "error_message", ""),
                 "next_action", "end"))

\* confidence_score in tenths
validate_code(s) ==
    LET code == Get(s, "generated_code", <<>>) IN
    Returned(Put(IF ~Contains(Lower(code), Lower(s["library_name"]))
                 THEN Put(Put(s, "confidence_score", 3),
                          "error_message", "Generated code may not use the specified library")
                 ELSE Put(s, "confidence_score", 8),
                 "next_action", "end"))

\* the literal of nodes.py line 202
iteration_cap == 10

should_continue(s) ==
    LET next_action == Get(s, "next_action", "end") IN
    IF Get(s, "iteration_count", 0) >= iteration_cap THEN "end" ELSE next_action

-----------------------------------------------------------------------------
(* src/src/agent/graph.py *)

Stages == <<"analyze_query", "search_documentation", "crawl_documentation",
            "analyze_github", "extract_examples", "manage_context",
            "generate_code", "validate_code">>

END == "end"

\* the mapping given to add_conditional_edges for each stage
EdgeMap(node) ==
    CASE node = "analyze_query" ->
            [search_documentation |-> "search_documentation", end |-> END]
      [] node = "search_documentation" ->
            [crawl_documentation |-> "crawl_documentation",
             analyze_github |-> "analyze_github", end |-> END]
      [] node = "crawl_documentation" ->
            [analyze_github |-> "analyze_github", end |-> END]
      [] node = "analyze_github" ->
            [extract_examples |-> "extract_examples", end |-> END]
      [] node = "extract_examples" ->
            [manage_context |-> "manage_context", end |-> END]
      [] node = "manage_context" ->
            [generate_code |-> "generate_code", end |-> END]
      [] node = "generate_code" ->
            [validate_code |-> "validate_code", end |-> END]

\* the stages whose successor should_continue picks; validate_code has a plain edge
ConditionalStages == {Stages[i] : i \in 1..7}

\* Successor with validate_code sent back to generate_code on a low score
Successor_retry(node, s) ==
    IF node \in ConditionalStages
    THEN LET key == should_continue(s) IN
         IF key \in DOMAIN EdgeMap(node)
         THEN [fault |-> "none", key |-> key, to |-> EdgeMap(node)[key]]
         ELSE [fault |-> "routing", key |-> key, to |-> "aborted"]
    ELSE [fault |-> "none", key |-> "",
          to |-> IF s["confidence_score"] = 3 THEN "generate_code" ELSE END]

\* where the graph goes after `node` returned state s: the routed key and the
\* successor, or a routing fault when the key is not in the stage's mapping
Successor(node, s) ==
    IF node \in ConditionalStages
    THEN LET key == should_continue(s) IN
         IF key \in DOMAIN EdgeMap(node)
         THEN [fault |-> "none", key |-> key, to |-> EdgeMap(node)[key]]
         ELSE [fault |-> "routing", key |-> key, to |-> "aborted"]
    ELSE [fault |-> "none", key |-> "", to |-> END]

initial_state(library_name, task) ==
    [library_name |-> library_name, task |-> task, messages |-> <<>>,
     iteration_count |-> 0, confidence_score |-> 0]

\* result_of reading context_used from a key no stage writes
result_of_wrong_key(final) ==
    [code |-> OptGet(final, "generated_code"),
     explanation |-> OptGet(final, "explanation"),
     confidence |-> OptGet(final, "confidence_score"),
     context_used |-> OptGet(final, "indexed_content")]

\* the dict CodeGenAgent.generate_code builds from the final state
result_of(final) ==
    [code |-> OptGet(final, "generated_code"),
     explanation |-> OptGet(final, "explanation"),
     confidence |-> OptGet(final, "confidence_score"),
     context_used |-> OptGet(final, "relevant_context")]

-----------------------------------------------------------------------------
(* One run of CodeGenAgent.generate_code *)

NoCalls == [issued |-> {}, failed |-> {}]
NoRoute == [after |-> "", key |-> ""]
NoCall == [op |-> "none"]

\* the call log after the call `name` was issued and ended
Called(log, name, failed) ==
    [issued |-> log.issued \cup {name},
     failed |-> IF failed THEN log.failed \cup {name} ELSE log.failed]

\* tables an earlier run may have left behind in the database file
InitialStores ==
    { [rows |-> <<>>, next_id |-> 1],
      insert([rows |-> <<>>, next_id |-> 1], "oldB", embed_text("oldB"),
             [source |-> "u9", type |-> "documentation"]) }

Init ==
    /\ \E library_name \in LibraryNames, task \in Tasks :
           state = initial_state(library_name, task)
    /\ \E db \in InitialStores : store = db.rows /\ next_id = db.next_id
    /\ pc = "analyze_query"
    /\ trace = <<>>
    /\ fault = "none"
    /\ route = NoRoute
    /\ result = None
    /\ ext = NoCalls
    /\ obs = [score |-> None, retrieved |-> None]
    /\ max_iterations = default_max_iterations
    /\ call = NoCall
    /\ parked = <<>>

\* the graph passing on one state dict that every invocation works on
Advance_shared_state(node, out) ==
    /\ trace' = Append(trace, node)
    /\ state' = out.state
    /\ parked' = [i \in DOMAIN parked |-> [parked[i] EXCEPT !.state = out.state]]
    /\ IF out.raised # "none"
       THEN /\ pc' = "aborted"
            /\ fault' = out.raised
            /\ route' = route
       ELSE LET nxt == Successor(node, out.state) IN
            /\ pc' = nxt.to
            /\ fault' = nxt.fault
            /\ route' = IF node \in ConditionalStages
                        THEN [after |-> node, key |-> nxt.key] ELSE route

\* the graph runs `node`, which ends as `out`, and follows the stage's edge;
\* the state it passes on is this invocation's own dict
Advance(node, out) ==
    /\ trace' = Append(trace, node)
    /\ state' = out.state
    /\ parked' = parked
    /\ IF out.raised # "none"
       THEN /\ pc' = "aborted"
            /\ fault' = out.raised
            /\ route' = route
       ELSE LET nxt == Successor(node, out.state) IN
            /\ pc' = nxt.to
            /\ fault' = nxt.fault
            /\ route' = IF node \in ConditionalStages
                        THEN [after |-> node, key |-> nxt.key] ELSE route

Ready(node) == pc = node /\ Len(trace) < MaxSteps

AnalyzeQuery ==
    /\ Ready("analyze_query")
    /\ \E out \in LLMOutcomes({<<"q">>}) :
           /\ Advance("analyze_query", analyze_query(state, out))
           /\ ext' = Called(ext, "analysis", ~out.ok)
    /\ UNCHANGED <<result, store, next_id, obs, max_iterations, call>>

SearchDocumentation ==
    /\ Ready("search_documentation")
    /\ \E out \in SearchOutcomes :
           /\ Advance("search_documentation", search_documentation(state, out))
           /\ ext' = Called(ext, "search", ~out.ok)
    /\ UNCHANGED <<result, store, next_id, obs, max_iterations, call>>

CrawlDocumentation ==
    /\ Ready("crawl_documentation")
    /\ \E out \in CrawlOutcomes :
           LET ended == crawl_documentation(state, out) IN
           /\ Advance("crawl_documentation", ended)
           /\ ext' = IF "crawl" \in ended.called
                     THEN Called(ext, "crawl", ~out.ok) ELSE ext
    /\ UNCHANGED <<result, store, next_id, obs, max_iterations, call>>

AnalyzeGithub ==
    /\ Ready("analyze_github")
    /\ \E out \in GitHubOutcomes :
           /\ Advance("analyze_github", analyze_github(state, out))
           /\ ext' = IF out.repo # "url"
                     THEN Called(ext, "repository", out.repo = "raise")
                     ELSE Called(Called(Called(ext, "repository", FALSE),
                                        "readme", out.readme = "raise"),
                                 "structure", out.structure = "raise")
    /\ UNCHANGED <<result, store, next_id, obs, max_iterations, call>>

ExtractExamples ==
    /\ Ready("extract_examples")
    /\ \E examples \in extract(Get(state, "crawled_documentation", EmptyDict),
                               Get(state, "github_info", EmptyDict)) :
           Advance("extract_examples", extract_examples(state, examples))
    /\ UNCHANGED <<result, store, next_id, ext, obs, max_iterations, call>>

ManageContext ==
    /\ Ready("manage_context")
    /\ LET db == [rows |-> store, next_id |-> next_id]
           chunks == all_chunks(Get(state, "crawled_documentation", EmptyDict),
                                Get(state, "github_info", EmptyDict),
                                Get(state, "code_examples", EmptyList))
       IN \E index_ok, query_ok \in BOOLEAN :
          \E cos \in CosineOracles(_store_rows(db, chunks).rows) :
          \E fetched \in cursor_rows(_store_rows(db, chunks).rows) :
             LET out == manage_context(state, db, index_ok, query_ok, cos, fetched)
                 index_failed == chunks # <<>> /\ ~index_ok
                 log1 == IF chunks # <<>>
                         THEN Called(ext, "embed_texts", index_failed) ELSE ext
             IN /\ chunks = <<>> => index_ok
                /\ index_failed => query_ok
                /\ Advance("manage_context", out)
                /\ store' = out.db.rows
                /\ next_id' = out.db.next_id
                /\ ext' = IF index_failed THEN log1
                          ELSE Called(log1, "embed_text", ~query_ok)
                /\ obs' = IF out.raised = "none"
                          THEN [obs EXCEPT !.retrieved = Some(out.state["relevant_context"])]
                          ELSE obs
    /\ UNCHANGED <<result, max_iterations, call>>

GenerateCode ==
    /\ Ready("generate_code")
    /\ \E out \in LLMOutcomes(GeneratedCodes) :
           /\ Advance("generate_code", generate_code(state, out))
           /\ ext' = Called(ext, "generation", ~out.ok)
    /\ UNCHANGED <<result, store, next_id, obs, max_iterations, call>>

ValidateCode ==
    /\ Ready("validate_code")
    /\ LET out == validate_code(state) IN
           /\ Advance("validate_code", out)
           /\ obs' = [obs EXCEPT !.score = Some(out.state["confidence_score"])]
    /\ UNCHANGED <<result, store, next_id, ext, max_iterations, call>>

\* the graph reached END: generate_code of graph.py builds and returns its dict
Return ==
    /\ pc = END
    /\ pc' = "done"
    /\ result' = Some(result_of(state))
    /\ UNCHANGED <<state, trace, fault, route, store, next_id, ext, obs, max_iterations,
                   call, parked>>

Next ==
    \/ AnalyzeQuery
    \/ SearchDocumentation
    \/ CrawlDocumentation
    \/ AnalyzeGithub
    \/ ExtractExamples
    \/ ManageContext
    \/ GenerateCode
    \/ ValidateCode
    \/ Return

Spec == Init /\ [][Next]_vars

\* every awaited collaborator call returns, so a run that can step does step
FairSpec == Spec /\ WF_vars(Next)

-----------------------------------------------------------------------------
(* should_continue applied to any state a caller can hand it *)

RouteActions ==
    {"search_documentation", "crawl_documentation", "analyze_github",
     "extract_examples", "manage_context", "generate_code", "validate_code", "end"}

RouteStates ==
    LET base == initial_state(<<"R">>, <<"q">>) IN
    {Put(base, "iteration_count", n) : n \in 0..MaxCount}
    \cup {Put(Put(base, "iteration_count", n), "next_action", a) :
             n \in 0..MaxCount, a \in RouteActions}

RouteInit ==
    /\ state \in RouteStates
    /\ max_iterations \in ConfiguredMaxIterations
    /\ pc = "route"
    /\ trace = <<>>
    /\ fault = "none"
    /\ route = NoRoute
    /\ result = None
    /\ store = <<>>
    /\ next_id = 1
    /\ ext = NoCalls
    /\ obs = [score |-> None, retrieved |-> None]
    /\ call = NoCall
    /\ parked = <<>>

RouteStep ==
    /\ pc = "route"
    /\ route' = [after |-> "", key |-> should_continue(state)]
    /\ pc' = "routed"
    /\ UNCHANGED <<state, trace, fault, result, store, next_id, ext, obs, max_iterations,
                   call, parked>>

RouteNext == RouteStep

SpecRoute == RouteInit /\ [][RouteNext]_vars

-----------------------------------------------------------------------------
(* retrieve_relevant_context applied to any table, query and top_k *)

\* chunks earlier runs may have stored: documentation chunks are at most
\* about chunk_size long, code examples are stored whole
StoredChunks ==
    { [text |-> "docA", source |-> "u1", type |-> "documentation"],
      [text |-> "exA", source |-> "example_0", type |-> "code_example"],
      [text |-> "exMid", source |-> "example_1", type |-> "code_example"],
      [text |-> "exBig", source |-> "example_2", type |-> "code_example"] }

\* the tables that storing up to MaxRows chunks leaves
StoredTables ==
    {_store_rows([rows |-> <<>>, next_id |-> 1], chunks) :
        chunks \in StringsUpTo(StoredChunks, MaxRows)}

RetrieveQueries ==
    Tasks \cup { <<"h", "o", "w", " ", "t", "o">>,
                 <<"E", "x", "a", "m", "p", "l", "e">> }

TopKArgs == {None} \cup {Some(k) : k \in 0..MaxTopK}

RankSimilarities == {-5, 8, 10}

RetrieveInit ==
    /\ \E db \in StoredTables : store = db.rows /\ next_id = db.next_id
    /\ \E query \in RetrieveQueries, top_k \in TopKArgs :
       \E cos \in [{store[i].embedding : i \in 1..Len(store)} -> RankSimilarities] :
           call = [op |-> "retrieve", query |-> query, library_name |-> <<"R">>,
                   top_k |-> top_k, cos |-> cos,
                   results |-> <<>>, filtered_results |-> <<>>]
    /\ pc = "call"
    /\ state = EmptyDict
    /\ trace = <<>>
    /\ fault = "none"
    /\ route = NoRoute
    /\ result = None
    /\ ext = NoCalls
    /\ obs = [score |-> None, retrieved |-> None]
    /\ max_iterations = default_max_iterations
    /\ parked = <<>>

Retrieve ==
    /\ pc = "call"
    /\ \E fetched \in cursor_rows(store) :
       LET out == retrieve_relevant_context(fetched, call.query, call.library_name,
                                            call.top_k, TRUE, call.cos)
       IN /\ obs' = [obs EXCEPT !.retrieved = Some(out.value)]
          /\ call' = [call EXCEPT !.results = out.results,
                                  !.filtered_results = out.filtered_results]
    /\ pc' = "returned"
    /\ ext' = Called(ext, "embed_text", FALSE)
    /\ UNCHANGED <<state, trace, fault, route, result, store, next_id, max_iterations,
                   parked>>

SpecRetrieve == RetrieveInit /\ [][Retrieve]_vars

-----------------------------------------------------------------------------
(* The operations of VectorDatabase, called in any order on a fresh file *)

\* query vectors handed to search, the zero vector among them
Vectors == {<<1, 0>>, <<0, 0>>}

\* embeddings handed to insert
StoredVectors == {<<3, 4>>, <<0, 0>>}

\* the chunks _store_chunks hands to insert
InsertedChunks == {c \in StoredChunks : c.text \in {"docA", "exA"}}

\* the query's cosine similarity to each embedding the table holds
CosineTo(query_embedding, table) ==
    [e \in {table[i].embedding : i \in 1..Len(table)} |->
        _cosine_similarity(query_embedding, e)]

StoreInit ==
    /\ store = <<>>
    /\ next_id = 1
    /\ call = NoCall
    /\ trace = <<>>
    /\ pc = "store"
    /\ state = EmptyDict
    /\ fault = "none"
    /\ route = NoRoute
    /\ result = None
    /\ ext = NoCalls
    /\ obs = [score |-> None, retrieved |-> None]
    /\ max_iterations = default_max_iterations
    /\ parked = <<>>

\* in this specification trace lists the inserts and clears made, each insert
\* with its arguments and the id it returned (cursor.lastrowid)
Insert ==
    /\ Len(trace) < MaxOps
    /\ \E chunk \in InsertedChunks, embedding \in StoredVectors :
           LET metadata == [source |-> chunk.source, type |-> chunk.type]
               db == insert([rows |-> store, next_id |-> next_id],
                            chunk.text, embedding, metadata)
           IN /\ store' = db.rows
              /\ next_id' = db.next_id
              /\ call' = [op |-> "insert", text |-> chunk.text, embedding |-> embedding,
                          metadata |-> metadata, returned |-> Last(db.rows).id]
              /\ trace' = Append(trace, call')
    /\ UNCHANGED <<pc, state, fault, route, result, ext, obs, max_iterations, parked>>

Search ==
    /\ \E query_embedding \in Vectors, top_k \in 0..MaxTopK, fetched \in cursor_rows(store) :
           call' = [op |-> "search", query_embedding |-> query_embedding, top_k |-> top_k,
                    returned |-> search(fetched, CosineTo(query_embedding, store), top_k)]
    /\ UNCHANGED <<pc, state, trace, fault, route, result, store, next_id, ext, obs,
                   max_iterations, parked>>

Count ==
    /\ call' = [op |-> "count", returned |-> count([rows |-> store, next_id |-> next_id])]
    /\ UNCHANGED <<pc, state, trace, fault, route, result, store, next_id, ext, obs,
                   max_iterations, parked>>

Clear ==
    /\ Len(trace) < MaxOps
    /\ LET db == clear([rows |-> store, next_id |-> next_id]) IN
           /\ store' = db.rows
           /\ next_id' = db.next_id
    /\ call' = [op |-> "clear"]
    /\ trace' = Append(trace, call')
    /\ UNCHANGED <<pc, state, fault, route, result, ext, obs, max_iterations, parked>>

SpecStore == StoreInit /\ [][Insert \/ Search \/ Count \/ Clear]_vars

-----------------------------------------------------------------------------
(* The operations of ContextManager, called in any order on a database file  *)
(* an earlier run may have written.  In this specification call is the last  *)
(* operation with its arguments and outcome.                                 *)

IndexInit ==
    /\ \E db \in InitialStores : store = db.rows /\ next_id = db.next_id
    /\ call = NoCall
    /\ pc = "manager"
    /\ state = EmptyDict
    /\ trace = <<>>
    /\ fault = "none"
    /\ route = NoRoute
    /\ result = None
    /\ ext = NoCalls
    /\ obs = [score |-> None, retrieved |-> None]
    /\ max_iterations = default_max_iterations
    /\ parked = <<>>

\* index_content(documentation, github_info, code_examples); None and the
\* empty dict or list are the same falsy value here
IndexContent ==
    /\ next_id <= MaxRows
    /\ \E documentation \in {EmptyDict,
                              [results |-> <<[content |-> "", url |-> "u0"]>>],
                              [results |-> <<[content |-> "docA", url |-> "u1"],
                                             [content |-> "docB", url |-> "u2"]>>]},
          github_info \in {EmptyDict, [readme |-> PyNone], [readme |-> "readmeA"]},
          code_examples \in {EmptyList, <<"exShort", "exBig">>},
          embed_ok \in BOOLEAN :
           LET out == index_content([rows |-> store, next_id |-> next_id],
                                    documentation, github_info, code_examples, embed_ok)
           IN /\ store' = out.db.rows
              /\ next_id' = out.db.next_id
              /\ call' = [op |-> "index_content", documentation |-> documentation,
                          github_info |-> github_info, code_examples |-> code_examples,
                          raised |-> out.raised, embedded |-> out.embedded]
    /\ UNCHANGED <<pc, state, trace, fault, route, result, ext, obs, max_iterations,
                   parked>>

\* retrieve_relevant_context(query, library_name)
RetrieveContext ==
    /\ \E query \in Tasks, embed_ok \in BOOLEAN, similarity \in SimilarityValues,
          fetched \in cursor_rows(store) :
           LET cos == [e \in {store[i].embedding : i \in 1..Len(store)} |-> similarity]
               out == retrieve_relevant_context(fetched, query, <<"R">>, None,
                                                embed_ok, cos)
           IN call' = [op |-> "retrieve", query |-> query, raised |-> out.raised,
                       query_embedding |-> out.query_embedding,
                       returned |-> out.value]
    /\ UNCHANGED <<pc, state, trace, fault, route, result, store, next_id, ext, obs,
                   max_iterations, parked>>

\* ContextManager.clear
ClearContext ==
    /\ LET db == clear([rows |-> store, next_id |-> next_id]) IN
           /\ store' = db.rows
           /\ next_id' = db.next_id
    /\ call' = [op |-> "clear"]
    /\ UNCHANGED <<pc, state, trace, fault, route, result, ext, obs, max_iterations,
                   parked>>

SpecIndex == IndexInit /\ [][IndexContent \/ RetrieveContext \/ ClearContext]_vars

-----------------------------------------------------------------------------
(* chunk_text called on a text, by a chunker of some configuration.  In this  *)
(* specification call holds the chunker, the text, the paragraph chunks that  *)
(* _split_by_semantic_boundaries built, the window starts of each call of     *)
(* _split_by_size and the list returned.                                      *)

\* the texts of up to MaxTokens letters, full stops, newlines and blank lines
Texts ==
    LET shapes == {Concat(tokens) :
                      tokens \in StringsUpTo({<<"a">>, <<".">>, <<"\n">>, <<"\n", "\n">>},
                                             MaxTokens)}
    IN {[i \in 1..Len(shape) |-> <<shape[i], i - 1>>] : shape \in shapes}

\* SemanticChunker(chunk_size=3, chunk_overlap=1) and its like, then
\* chunk_text(text); args keeps the constructor's arguments
ChunkInit ==
    /\ \E args \in {<<3, 1>>, <<3, 2>>, <<4, 1>>, <<3, 0>>}, text \in Texts :
           call = [op |-> "chunk_text", args |-> args,
                   self |-> SemanticChunker(args[1], args[2]), text |-> text,
                   semantic |-> <<>>, starts |-> <<>>, returned |-> None]
    /\ pc = "call"
    /\ store = <<>>
    /\ next_id = 1
    /\ state = EmptyDict
    /\ trace = <<>>
    /\ fault = "none"
    /\ route = NoRoute
    /\ result = None
    /\ ext = NoCalls
    /\ obs = [score |-> None, retrieved |-> None]
    /\ max_iterations = default_max_iterations
    /\ parked = <<>>

\* chunker.chunk_text(text): returns its list, or stays in the window loop
ChunkText ==
    /\ pc = "call"
    /\ LET out == SemanticChunker_chunk_text(call.self, call.text) IN
           /\ call' = [call EXCEPT
                          !.semantic = out.semantic,
                          !.starts = out.starts,
                          !.returned = IF out.diverges THEN None ELSE Some(out.chunks)]
           /\ pc' = IF out.diverges THEN "looping" ELSE "returned"
    /\ UNCHANGED <<state, trace, fault, route, result, store, next_id, ext, obs,
                   max_iterations, parked>>

SpecChunk == ChunkInit /\ [][ChunkText]_vars

-----------------------------------------------------------------------------
(* generate_with_json called on a list of messages.  In this specification   *)
(* call holds the messages (each content a list of its parts), the outcome   *)
(* of the completion request and what the call gave its caller.              *)

JsonInit ==
    /\ \E messages \in {<<>>,
                        <<[type |-> "system", content |-> <<"prompt">>]>>,
                        <<[type |-> "system", content |-> <<"prompt">>],
                          [type |-> "human", content |-> <<"task">>]>>},
          out \in LLMOutcomes(StringsUpTo({"{", "}", "k", "x"}, MaxResponse)) :
           call = [op |-> "generate_with_json", messages |-> messages, out |-> out,
                   returned |-> None]
    /\ pc = "call"
    /\ store = <<>>
    /\ next_id = 1
    /\ state = EmptyDict
    /\ trace = <<>>
    /\ fault = "none"
    /\ route = NoRoute
    /\ result = None
    /\ ext = NoCalls
    /\ obs = [score |-> None, retrieved |-> None]
    /\ max_iterations = default_max_iterations
    /\ parked = <<>>

\* generate_with_json(messages): the JSON instruction is added to a last
\* message that is a HumanMessage, then the completion is requested and parsed
GenerateWithJson ==
    /\ pc = "call"
    /\ LET messages == call.messages
           n == Len(messages)
           instructed ==
               IF n > 0 /\ messages[n].type = "human"
               THEN [messages EXCEPT ![n].content =
                         Append(@, "\n\nRespond with valid JSON only.")]
               ELSE messages
           out == generate_with_json(call.out)
       IN /\ call' = [call EXCEPT !.messages = instructed, !.returned = Some(out)]
          /\ pc' = IF out.raised THEN "raised" ELSE "returned"
          /\ ext' = Called(ext, "generation", ~call.out.ok)
    /\ UNCHANGED <<state, trace, fault, route, result, store, next_id, obs,
                   max_iterations, parked>>

SpecJson == JsonInit /\ [][GenerateWithJson]_vars

-----------------------------------------------------------------------------
(* Concurrent runs storing their chunks in one database file.  In this        *)
(* specification parked gives each run's _store_chunks loop (the chunks it    *)
(* inserts, the ids its inserts returned), and call is the write transaction  *)
(* open on the file.                                                          *)

Runs == {1, 2}

WritersInit ==
    /\ store = <<>>
    /\ next_id = 1
    /\ \E chunks \in [Runs -> (StringsUpTo(InsertedChunks, MaxChunks) \ {<<>>})] :
           parked = [r \in Runs |-> [chunks |-> chunks[r], inserted |-> <<>>]]
    /\ call = NoCall
    /\ pc = "store_chunks"
    /\ state = EmptyDict
    /\ trace = <<>>
    /\ fault = "none"
    /\ route = NoRoute
    /\ result = None
    /\ ext = NoCalls
    /\ obs = [score |-> None, retrieved |-> None]
    /\ max_iterations = default_max_iterations

\* conn.execute(INSERT ...): the connection takes the file's write lock, which
\* no other connection holds, and the row enters its transaction
Execute(r) ==
    /\ call = NoCall
    /\ Len(parked[r].inserted) < Len(parked[r].chunks)
    /\ LET chunk == parked[r].chunks[Len(parked[r].inserted) + 1] IN
           call' = [op |-> "insert", run |-> r,
                    db |-> insert([rows |-> store, next_id |-> next_id],
                                  chunk.text, embed_text(chunk.text),
                                  [source |-> chunk.source, type |-> chunk.type])]
    /\ UNCHANGED <<pc, state, trace, fault, route, result, store, next_id, ext, obs,
                   max_iterations, parked>>

\* conn.commit(); return cursor.lastrowid: the row becomes visible to every
\* connection and the write lock is released
Commit(r) ==
    /\ call.op = "insert"
    /\ call.run = r
    /\ store' = call.db.rows
    /\ next_id' = call.db.next_id
    /\ parked' = [parked EXCEPT ![r].inserted = Append(@, Last(call.db.rows).id)]
    /\ call' = NoCall
    /\ UNCHANGED <<pc, state, trace, fault, route, result, ext, obs, max_iterations>>

\* a search by any run reads the committed rows, whether or not a write
\* transaction is open; its query is as similar to one row as to another
Observe ==
    /\ \E similarity \in SimilarityValues, fetched \in cursor_rows(store) :
           LET cos == [e \in {store[i].embedding : i \in 1..Len(store)} |-> similarity] IN
           obs' = [obs EXCEPT !.retrieved = Some(search(fetched, cos, top_k_results * 2))]
    /\ UNCHANGED <<pc, state, trace, fault, route, result, store, next_id, ext,
                   max_iterations, call, parked>>

SpecWriters ==
    WritersInit /\ [][(\E r \in Runs : Execute(r) \/ Commit(r)) \/ Observe]_vars

-----------------------------------------------------------------------------
(* Concurrent invocations of CodeGenAgent.generate_code on one agent.  The   *)
(* event loop runs one invocation at a time and changes over at an await;    *)
(* parked holds the invocations not running, each with everything of its     *)
(* own, and call.id names the one running.                                   *)

\* the running invocation as it is set aside
Suspended ==
    [id |-> call.id, pc |-> pc, state |-> state, trace |-> trace, fault |-> fault,
     route |-> route, result |-> result, ext |-> ext, obs |-> obs]

RunsInit ==
    /\ state = initial_state(<<"R">>, <<"U", "s", "a", "g", "e">>)
    /\ \E db \in InitialStores : store = db.rows /\ next_id = db.next_id
    /\ pc = "analyze_query"
    /\ trace = <<>>
    /\ fault = "none"
    /\ route = NoRoute
    /\ result = None
    /\ ext = NoCalls
    /\ obs = [score |-> None, retrieved |-> None]
    /\ max_iterations = default_max_iterations
    /\ call = [op |-> "run", id |-> 1]
    /\ parked = << [id |-> 2, pc |-> "analyze_query",
                    state |-> initial_state(<<"r", "q">>, <<"q">>),
                    trace |-> <<>>, fault |-> "none", route |-> NoRoute,
                    result |-> None, ext |-> NoCalls,
                    obs |-> [score |-> None, retrieved |-> None]] >>

\* the collaborators of these runs answer, with one-letter code and at most one
\* example, which keeps two interleaved runs within reach
Calm ==
    /\ ext.failed = {}
    /\ Has(state, "generated_code") => Len(state["generated_code"]) = 1
    /\ Has(state, "code_examples") => Len(state["code_examples"]) <= 1

\* the running invocation executes its next stage, or returns
RunStep == Next /\ Calm'

\* the running invocation is suspended and the first parked one resumes
Switch ==
    /\ parked # <<>>
    /\ Head(parked).pc \notin {"done", "aborted"}
    /\ LET resumed == Head(parked) IN
           /\ pc' = resumed.pc
           /\ state' = resumed.state
           /\ trace' = resumed.trace
           /\ fault' = resumed.fault
           /\ route' = resumed.route
           /\ result' = resumed.result
           /\ ext' = resumed.ext
           /\ obs' = resumed.obs
           /\ call' = [call EXCEPT !.id = resumed.id]
    /\ parked' = Append(Tail(parked), Suspended)
    /\ UNCHANGED <<store, next_id, max_iterations>>

SpecRuns == RunsInit /\ [][RunStep \/ Switch]_vars

-----------------------------------------------------------------------------
(* Properties *)

Ran(node) == node \in Range(trace)

\* C1: should_continue returns "end" whenever iteration_count >= the configured
\* max_iterations, whatever next_action holds (checked under SpecRoute).
C1_CapAtConfiguredMax ==
    (pc = "routed" /\ Get(state, "iteration_count", 0) >= max_iterations)
        => route.key = "end"

\* C2: in a run without a fatal error the stages run in the declared order,
\* each exactly once and none skipped, END follows validate_code only, and the
\* edge out of validate_code leads to END whatever the state holds.
C2_StageOrder ==
    /\ Len(trace) <= Len(Stages)
    /\ trace = SubSeq(Stages, 1, Len(trace))
    /\ fault = "none" =>
          /\ pc \in {END, "done"} <=> trace = Stages
          /\ pc \notin {END, "done"} => pc = Stages[Len(trace) + 1]
    /\ \A s \in RouteStates : Successor("validate_code", s).to = END

C2_FullRun == pc = "done" /\ fault = "none" /\ trace = Stages

Terminated == pc = "done" \/ (pc = "aborted" /\ fault \in {"generation", "embedding"})

\* stage executions so far, plus one once the result is returned
Progress == Len(trace) + (IF pc = "done" THEN 1 ELSE 0)

SameLetter(a, b) == LowerChar(a) = LowerChar(b)

\* needle occurs in hay when the case of letters is ignored
ContainsIgnoringCase(hay, needle) ==
    \E i \in 0..(Len(hay) - Len(needle)) :
        \A j \in 1..Len(needle) : SameLetter(hay[i + j], needle[j])

\* C4: once validate_code has run, confidence_score is 0.8 if generated_code
\* contains library_name ignoring case, and otherwise it is 0.3 and
\* error_message is set; no other value is produced.
C4_Confidence ==
    Ran("validate_code") =>
        /\ state["confidence_score"] \in {3, 8}
        /\ IF ContainsIgnoringCase(state["generated_code"], state["library_name"])
           THEN state["confidence_score"] = 8
           ELSE state["confidence_score"] = 3 /\ Has(state, "error_message")

\* validate_code scored 0.8 on a match that exists only when case is ignored
C4_FoldedMatch ==
    /\ Ran("validate_code")
    /\ state["confidence_score"] = 8
    /\ ~Contains(state["generated_code"], state["library_name"])

\* C5: a run that reached the end state returns a result whose code is not
\* None, whose confidence is the score validate_code set and whose
\* context_used is the context manage_context retrieved.
C5_Result ==
    pc = "done" =>
        /\ result.some
        /\ result.val.code.some
        /\ obs.score.some /\ result.val.confidence = obs.score
        /\ obs.retrieved.some /\ result.val.context_used = obs.retrieved

\* a degraded run returned: the search and the repository lookup both failed
C5_DegradedResult ==
    /\ pc = "done"
    /\ {"search", "repository"} \subseteq ext.failed
    /\ "crawl" \notin ext.issued
    /\ result.val.code.some

FatalCalls == {"analysis", "embed_texts", "embed_text", "generation"}

\* C6: a failed search, crawl or repository call never aborts the run: the
\* stage stores the empty or partial result and names its normal successor,
\* a run aborts only at a failed generation or embedding call, and a run
\* without such a failure goes through generate_code and validate_code.
C6_FailuresAbsorbed ==
    /\ "search" \in ext.failed =>
          Has(state, "search_results") /\ state["search_results"] = <<>>
    /\ "crawl" \in ext.failed =>
          Has(state, "crawled_documentation") /\ state["crawled_documentation"] = <<>>
    /\ "repository" \in ext.failed =>
          Has(state, "github_info") /\ state["github_info"] = [found |-> FALSE]
    /\ "readme" \in ext.failed =>
          Has(state, "github_info") /\ state["github_info"]["readme"] = PyNone
    /\ "structure" \in ext.failed =>
          Has(state, "github_info") /\ state["github_info"]["structure"] = <<>>
    /\ (trace # <<>> /\ pc # "aborted") =>
          /\ Last(trace) = "search_documentation" =>
                state["next_action"] = "crawl_documentation" /\ pc = "crawl_documentation"
          /\ Last(trace) = "crawl_documentation" =>
                state["next_action"] = "analyze_github" /\ pc = "analyze_github"
          /\ Last(trace) = "analyze_github" =>
                state["next_action"] = "extract_examples" /\ pc = "extract_examples"
    /\ pc = "aborted" =>
          /\ fault \in {"generation", "embedding"}
          /\ Last(trace) \in {"analyze_query", "manage_context", "generate_code"}
          /\ ext.failed \cap FatalCalls # {}
    /\ (pc = "done" \/ pc = END) => Ran("generate_code") /\ Ran("validate_code")

\* a run returned although the crawl, the README fetch and the structure
\* fetch all failed
C6_FailedAndDone ==
    /\ pc = "done"
    /\ {"crawl", "readme", "structure"} \subseteq ext.failed
    /\ Ran("generate_code") /\ Ran("validate_code")

\* C7: a failed generation call aborts the run: the stage that issued it is
\* the last to execute, validate_code never runs, and no result, generated
\* code or confidence score comes out of the run.
C7_GenerationFatal ==
    /\ "generation" \in ext.failed =>
          /\ pc = "aborted" /\ fault = "generation"
          /\ Last(trace) = "generate_code"
          /\ ~Ran("validate_code")
          /\ result = None
          /\ ~Has(state, "generated_code")
          /\ state["confidence_score"] = 0
    /\ "analysis" \in ext.failed =>
          /\ pc = "aborted" /\ fault = "generation"
          /\ trace = <<"analyze_query">>
          /\ result = None

C7_GenerationFailed ==
    "generation" \in ext.failed /\ Len(trace) = 7 /\ pc = "aborted"

\* crawl_documentation has nothing to crawl in s
NoUsableUrl(s) ==
    \/ ~Has(s, "search_results")
    \/ s["search_results"] = <<>>
    \/ ~Has(s["search_results"][1], "url")
    \/ s["search_results"][1]["url"] \in {"", PyNone}

Without(d, k) == [x \in (DOMAIN d) \ {k} |-> d[x]]

\* C8: crawl_documentation run with search_results absent or empty, or with a
\* first result without a url, issues no crawl call, leaves
\* crawled_documentation unset, sets next_action to analyze_github, and the
\* run continues with analyze_github.
C8_CrawlDegrades ==
    /\ (Ran("crawl_documentation") /\ NoUsableUrl(state)) =>
          /\ "crawl" \notin ext.issued
          /\ ~Has(state, "crawled_documentation")
          /\ Last(trace) = "crawl_documentation" =>
                state["next_action"] = "analyze_github" /\ pc = "analyze_github"
          /\ fault \notin {"crawl", "routing"}
    /\ pc = "crawl_documentation" =>
          \A out \in CrawlOutcomes :
              LET ended == crawl_documentation(Without(state, "search_results"), out) IN
              /\ ended.raised = "none"
              /\ ended.called = {}
              /\ ~Has(ended.state, "crawled_documentation")
              /\ ended.state["next_action"] = "analyze_github"
              /\ Successor("crawl_documentation", ended.state).to = "analyze_github"

\* a run returned whose first search result had no url key
C8_NoUrlAndDone ==
    /\ pc = "done"
    /\ state["search_results"] # <<>>
    /\ ~Has(state["search_results"][1], "url")
    /\ "crawl" \notin ext.issued

\* C9: the value should_continue returns after a stage is always a key of
\* that stage's edge map, so no run ends in a routing error.
C9_RoutedKeyDeclared ==
    /\ fault # "routing"
    /\ route.after # "" => route.key \in DOMAIN EdgeMap(route.after)

C9_RoutedToValidate ==
    pc = "done" /\ route = [after |-> "generate_code", key |-> "validate_code"]

\* C10: iteration_count never decreases from one stage execution to the next.
C10_IterationMonotone ==
    [][state'["iteration_count"] >= state["iteration_count"]]_vars

C10_StagesExecuted ==
    pc = "done" /\ Len(trace) = 8 /\ Has(state, "iteration_count")

RECURSIVE EstimatedTokens(_)
\* the sum over the texts of len(text) // 4
EstimatedTokens(texts) ==
    IF texts = <<>> THEN 0
    ELSE (TextLen(Head(texts)) \div 4) + EstimatedTokens(Tail(texts))

\* the top_k a retrieval works with, and the first top_k re-ranked candidates
CallTopK == IF call.top_k = None THEN top_k_results ELSE call.top_k.val
FirstRanked == Take(call.filtered_results, CallTopK)
TextsOf(results) == [i \in 1..Len(results) |-> results[i].text]

\* C11: the texts retrieve_relevant_context returns have estimated token counts
\* (len(text) // 4 each) that sum to at most max_context_tokens, for every table,
\* query and top_k (checked under SpecRetrieve).
C11_WithinBudget ==
    (pc = "returned" /\ obs.retrieved # None)
        => EstimatedTokens(obs.retrieved.val) <= max_context_tokens

\* a retrieval returned some texts and left out the next candidate, which would
\* have passed the budget
C11_BudgetBinds ==
    /\ pc = "returned"
    /\ obs.retrieved # None
    /\ LET n == Len(obs.retrieved.val) IN
       /\ n > 0
       /\ n < Len(FirstRanked)
       /\ EstimatedTokens(obs.retrieved.val)
              + (TextLen(FirstRanked[n + 1].text) \div 4) > max_context_tokens

\* C12: retrieve_relevant_context fetches min(2k, rows) candidates, and returns
\* the texts of the longest prefix of the first k re-ranked candidates whose
\* estimated tokens fit max_context_tokens: at most k texts, in re-ranked order,
\* and nothing after the first candidate that does not fit (checked under
\* SpecRetrieve).
C12_LongestPrefix ==
    (pc = "returned" /\ obs.retrieved # None) =>
        LET texts == TextsOf(FirstRanked)
            n == Len(obs.retrieved.val)
        IN /\ Len(call.results) = (IF 2 * CallTopK < Len(store)
                                   THEN 2 * CallTopK ELSE Len(store))
           /\ Len(call.filtered_results) = Len(call.results)
           /\ n <= CallTopK
           /\ n <= Len(texts)
           /\ obs.retrieved.val = SubSeq(texts, 1, n)
           /\ EstimatedTokens(SubSeq(texts, 1, n)) <= max_context_tokens
           /\ n < Len(texts) => EstimatedTokens(SubSeq(texts, 1, n + 1)) > max_context_tokens

\* a retrieval stopped at a candidate that did not fit although a later one of
\* the first k would have
C12_LaterWouldFit ==
    /\ pc = "returned"
    /\ obs.retrieved # None
    /\ LET n == Len(obs.retrieved.val) IN
       \E j \in (n + 2)..Len(FirstRanked) :
           EstimatedTokens(obs.retrieved.val)
               + (TextLen(FirstRanked[j].text) \div 4) <= max_context_tokens

\* the task query asks for examples: "example", "how to" or "usage" occurs in it,
\* whatever the case of its letters
AsksForExamples(query) ==
    \/ ContainsIgnoringCase(query, <<"e", "x", "a", "m", "p", "l", "e">>)
    \/ ContainsIgnoringCase(query, <<"h", "o", "w", " ", "t", "o">>)
    \/ ContainsIgnoringCase(query, <<"u", "s", "a", "g", "e">>)

\* 1.3 x the raw similarity for a code example when the query asks for examples,
\* the raw similarity otherwise (in hundredths)
ExpectedScore(r, query) ==
    IF AsksForExamples(query) /\ Has(r.metadata, "type") /\ r.metadata.type = "code_example"
    THEN 13 * r.similarity ELSE 10 * r.similarity

\* C13: the re-ranked list holds the candidates fetched, each scored 1.3 x its
\* raw similarity if it is a code example and the query contains "example",
\* "how to" or "usage" case-insensitively, its raw similarity otherwise, in
\* order of non-increasing adjusted score (checked under SpecRetrieve).
C13_RankedByAdjustedScore ==
    pc = "returned" =>
        LET ranked == call.filtered_results IN
        /\ Len(ranked) = Len(call.results)
        /\ {ranked[i].id : i \in 1..Len(ranked)}
               = {call.results[i].id : i \in 1..Len(call.results)}
        /\ \A i \in 1..Len(ranked) :
               ranked[i].adjusted_score = ExpectedScore(ranked[i], call.query)
        /\ \A i, j \in 1..Len(ranked) :
               i < j => ranked[i].adjusted_score >= ranked[j].adjusted_score

\* the boost lifted a code example over a candidate of higher raw similarity
C13_BoostReorders ==
    /\ pc = "returned"
    /\ \E i, j \in 1..Len(call.filtered_results) :
           /\ i < j
           /\ call.filtered_results[i].similarity < call.filtered_results[j].similarity
           /\ call.filtered_results[i].metadata.type = "code_example"

\* the inserts and clears made so far, and the inserts made since the last clear
Inserts == SelectSeq(trace, LAMBDA c : c.op = "insert")
LastClear ==
    IF \E i \in 1..Len(trace) : trace[i].op = "clear"
    THEN CHOOSE i \in 1..Len(trace) :
             trace[i].op = "clear" /\ \A j \in (i + 1)..Len(trace) : trace[j].op # "clear"
    ELSE 0
LiveInserts == SubSeq(trace, LastClear + 1, Len(trace))

\* C14: every insert returns an id strictly greater than the id every earlier
\* insert returned, whether or not a clear removed that record since (checked
\* under SpecStore).
C14_IdsIncrease ==
    \A i, j \in 1..Len(trace) :
        (i < j /\ trace[i].op = "insert" /\ trace[j].op = "insert")
            => trace[i].returned < trace[j].returned

\* an insert was made after a clear that removed an inserted record
C14_InsertAfterClear ==
    \E i, j, k \in 1..Len(trace) :
        /\ i < j /\ j < k
        /\ trace[i].op = "insert" /\ trace[j].op = "clear" /\ trace[k].op = "insert"

\* C15: count() returns the number of inserts made since the last clear (since
\* the store was created when there was no clear) (checked under SpecStore).
C15_CountsLiveInserts ==
    call.op = "count" => call.returned = Len(LiveInserts)

\* count() was called with records in the store, after a clear that removed others
C15_CountAfterClear ==
    /\ call.op = "count"
    /\ call.returned > 0
    /\ LastClear > 1

\* a search's similarity of a stored row, recomputed from the two vectors
SimilarityOf(row) == _cosine_similarity(call.query_embedding, row.embedding)

\* C16: search(k), k >= 0, returns min(k, count()) results of distinct stored
\* records, in order of non-increasing similarity, and every record left out
\* has a similarity no greater than that of each record returned (checked under
\* SpecStore).
C16_TopKBySimilarity ==
    call.op = "search" =>
        LET returned == call.returned
            ids == {returned[i].id : i \in 1..Len(returned)}
        IN /\ Len(returned) = (IF call.top_k < Len(store) THEN call.top_k ELSE Len(store))
           /\ Cardinality(ids) = Len(returned)
           /\ \A i \in 1..Len(returned) :
                  \E r \in 1..Len(store) :
                      /\ store[r].id = returned[i].id
                      /\ returned[i].similarity = SimilarityOf(store[r])
           /\ \A i, j \in 1..Len(returned) :
                  i < j => returned[i].similarity >= returned[j].similarity
           /\ \A r \in 1..Len(store), i \in 1..Len(returned) :
                  store[r].id \notin ids => SimilarityOf(store[r]) <= returned[i].similarity

\* a search returned fewer records than the store holds and left out one of
\* lower similarity than one it returned
C16_LeftOutLower ==
    /\ call.op = "search"
    /\ Len(call.returned) > 0
    /\ \E r \in 1..Len(store) :
           /\ store[r].id \notin {call.returned[i].id : i \in 1..Len(call.returned)}
           /\ SimilarityOf(store[r]) < call.returned[1].similarity

C20_RecordsAsInserted ==
    /\ Len(store) = Len(LiveInserts)
    /\ \A i \in 1..Len(store) :
           /\ store[i].id = LiveInserts[i].returned
           /\ store[i].text = LiveInserts[i].text
           /\ store[i].embedding = LiveInserts[i].embedding
    /\ call.op = "search" =>
           \A i \in 1..Len(call.returned) :
               \E n \in 1..Len(Inserts) :
                   /\ Inserts[n].returned = call.returned[i].id
                   /\ Inserts[n].text = call.returned[i].text
                   /\ Inserts[n].metadata = call.returned[i].metadata
                   /\ \A m \in 1..Len(Inserts) :
                          Inserts[m].returned = call.returned[i].id => m = n

\* a search returned records of different texts, inserted after a clear
C20_SearchAfterClear ==
    /\ call.op = "search"
    /\ LastClear > 1
    /\ \E i, j \in 1..Len(call.returned) : call.returned[i].text # call.returned[j].text

\* the rows and the observed records of concurrent inserts: the n-th insert of
\* run r, and the runs' inserts that returned a given id
InsertsReturning(id) ==
    {<<r, n>> \in Runs \X (1..MaxChunks + 1) :
        n <= Len(parked[r].inserted) /\ parked[r].inserted[n] = id}
ChunkOf(rn) == parked[rn[1]].chunks[rn[2]]

\* C18: however the inserts of concurrent runs interleave, count() equals the
\* number of inserts completed (the total issued, once every run has finished),
\* and every row, and every record a search observes, has the id one insert
\* alone returned with that insert's complete text, vector and metadata
\* (checked under SpecWriters).
C18_InsertsAtomic ==
    /\ count([rows |-> store, next_id |-> next_id])
           = Len(parked[1].inserted) + Len(parked[2].inserted)
    /\ (\A r \in Runs : Len(parked[r].inserted) = Len(parked[r].chunks))
           => Len(store) = Len(parked[1].chunks) + Len(parked[2].chunks)
    /\ \A i \in 1..Len(store) :
           /\ Cardinality(InsertsReturning(store[i].id)) = 1
           /\ \A rn \in InsertsReturning(store[i].id) :
                  /\ store[i].text = ChunkOf(rn).text
                  /\ store[i].embedding = embed_text(ChunkOf(rn).text)
    /\ obs.retrieved # None =>
           \A i \in 1..Len(obs.retrieved.val) :
               LET record == obs.retrieved.val[i] IN
               /\ Cardinality(InsertsReturning(record.id)) = 1
               /\ \A rn \in InsertsReturning(record.id) :
                      /\ record.text = ChunkOf(rn).text
                      /\ record.metadata = [source |-> ChunkOf(rn).source,
                                            type |-> ChunkOf(rn).type]

\* both runs have finished, their inserts interleaved, both inserted the same
\* text, and a search observed records of both
C18_Interleaved ==
    /\ \A r \in Runs : Len(parked[r].inserted) = Len(parked[r].chunks)
    /\ \E n \in 1..Len(parked[1].inserted), m \in 1..Len(parked[2].inserted) :
           /\ parked[1].chunks[n].text = parked[2].chunks[m].text
           /\ n < Len(parked[1].inserted)
           /\ parked[1].inserted[n] < parked[2].inserted[m]
           /\ parked[2].inserted[m] < parked[1].inserted[n + 1]
    /\ obs.retrieved # None
    /\ \A r \in Runs : \E i \in 1..Len(obs.retrieved.val) :
           obs.retrieved.val[i].id \in Range(parked[r].inserted)

\* the WorkflowState keys a stage sets
Sets(node) ==
    CASE node = "analyze_query" -> {"messages", "next_action"}
      [] node = "search_documentation" -> {"search_results", "next_action"}
      [] node = "crawl_documentation" -> {"crawled_documentation", "next_action"}
      [] node = "analyze_github" -> {"github_info", "next_action"}
      [] node = "extract_examples" -> {"code_examples", "next_action"}
      [] node = "manage_context" -> {"relevant_context", "next_action"}
      [] node = "generate_code" -> {"generated_code", "messages", "next_action"}
      [] node = "validate_code" ->
             {"confidence_score", "error_message", "next_action", "iteration_count"}
      [] OTHER -> {}

\* C19: a step of the running invocation leaves every other invocation's
\* WorkflowState, position and results as they were, and changes of its own
\* state only the keys its stage sets, storing as context only texts held by the
\* shared store; a change-over hands each invocation back exactly the state it
\* was suspended with (checked under SpecRuns).
C19_RunsIsolated ==
    /\ [][call'.id = call.id =>
            /\ parked' = parked
            /\ \A k \in (DOMAIN state) \ Sets(pc) :
                   k \in DOMAIN state' /\ state'[k] = state[k]
            /\ (DOMAIN state') \ (DOMAIN state) \subseteq Sets(pc)
            /\ (pc = "manage_context" /\ Has(state', "relevant_context")) =>
                   Range(state'["relevant_context"]) \subseteq
                       {store'[i].text : i \in 1..Len(store')}]_vars
    /\ [][call'.id # call.id =>
            /\ state' = Head(parked).state
            /\ pc' = Head(parked).pc
            /\ trace' = Head(parked).trace
            /\ Last(parked') = Suspended
            /\ store' = store]_vars

\* two invocations ran interleaved, stage by stage, and both returned
C19_BothReturned ==
    /\ pc = "done"
    /\ parked # <<>>
    /\ Head(parked).pc = "done"
    /\ state["library_name"] # Head(parked).state["library_name"]
    /\ Has(state, "relevant_context")
    /\ Has(Head(parked).state, "relevant_context")

-----------------------------------------------------------------------------
(* C22 *)

\* a vector has zero norm exactly when all its components are zero
ZeroVector(vec) == \A i \in 1..Len(vec) : vec[i] = 0

\* the stored row a search result was built from
RowOf(record) == CHOOSE i \in 1..Len(store) : store[i].id = record.id

\* C22: every record a search returns whose stored vector has zero norm, and
\* every record when the query vector has zero norm, has similarity exactly 0;
\* the search itself returns (its result is a list of records) in both cases.
C22_ZeroNormScoresZero ==
    call.op = "search" =>
        \A i \in 1..Len(call.returned) :
            /\ \E j \in 1..Len(store) : store[j].id = call.returned[i].id
            /\ (ZeroVector(call.query_embedding)
                   \/ ZeroVector(store[RowOf(call.returned[i])].embedding))
                   => call.returned[i].similarity = 0

\* a search returned a zero-norm record behind one of positive similarity
C22_ZeroRowRanked ==
    /\ call.op = "search"
    /\ ~ZeroVector(call.query_embedding)
    /\ \E i, j \in 1..Len(call.returned) :
           /\ i < j
           /\ call.returned[i].similarity > 0
           /\ ZeroVector(store[RowOf(call.returned[j])].embedding)
           /\ call.returned[j].similarity = 0

\* a search with the zero vector as its query returned every stored record
C22_ZeroQuery ==
    /\ call.op = "search"
    /\ ZeroVector(call.query_embedding)
    /\ Len(store) >= 2
    /\ Len(call.returned) = Len(store)
    /\ \E i \in 1..Len(store) : ~ZeroVector(store[i].embedding)

-----------------------------------------------------------------------------
(* C21, C23, C24 (checked under SpecIndex) *)

\* C21: the vectors the store holds and the query vector of the search last
\* made against it all have one dimension.
C21_OneDimension ==
    LET held == {Len(store[i].embedding) : i \in 1..Len(store)}
        searched == IF call.op = "retrieve" /\ ~call.raised
                    THEN {Len(call.query_embedding.val)} ELSE {}
    IN \A m, n \in held \cup searched : m = n

\* a search ran against rows of an earlier run and of the last index_content
C21_SearchedMixedRows ==
    /\ call.op = "retrieve"
    /\ ~call.raised
    /\ \E i, j \in 1..Len(store) :
           /\ store[i].text = "oldB"
           /\ store[j].text = "exBig"
           /\ Len(store[j].embedding) = Len(call.query_embedding.val)

\* documentation, the README and the examples are all absent or empty
NoSource(c) ==
    /\ c.documentation = EmptyDict
    /\ (c.github_info = EmptyDict \/ c.github_info["readme"] = PyNone)
    /\ c.code_examples = EmptyList

\* C23: an index_content given no documentation, no README and no examples
\* calls embed_texts not at all, returns, and leaves the table, the next id
\* and count() as they were.
C23_NothingToIndex ==
    [][(call'.op = "index_content" /\ NoSource(call'))
          => /\ call'.embedded = None
             /\ ~call'.raised
             /\ store' = store
             /\ next_id' = next_id
             /\ count([rows |-> store', next_id |-> next_id'])
                  = count([rows |-> store, next_id |-> next_id])]_vars

\* index_content was given nothing while the table held records
C23_NothingIndexed ==
    /\ call.op = "index_content"
    /\ NoSource(call)
    /\ Len(store) >= 2

\* the chunks of the pages and of the README handed to index_content
PageChunks(documentation) ==
    IF documentation = EmptyDict THEN <<>>
    ELSE Concat([i \in 1..Len(documentation["results"]) |->
                   IF documentation["results"][i]["content"] = "" THEN <<>>
                   ELSE chunk_text(documentation["results"][i]["content"])])

ReadmeChunks(github_info) ==
    IF github_info = EmptyDict \/ github_info["readme"] = PyNone THEN <<>>
    ELSE chunk_text(github_info["readme"])

TypeOf(row) == json_loads(row.metadata.val)["type"]

\* C24: an index_content that returns appends, in this order, one record per
\* chunk of the pages (type documentation), one per chunk of the README (type
\* readme) and one per code example (type code_example, the text being the
\* whole example however long), so count() grows by the sum of the three.
C24_OneRecordPerExample ==
    [][(call'.op = "index_content" /\ ~call'.raised)
          => LET pages == PageChunks(call'.documentation)
                 readme == ReadmeChunks(call'.github_info)
                 examples == call'.code_examples
                 added == SubSeq(store', Len(store) + 1, Len(store'))
             IN /\ SubSeq(store', 1, Len(store)) = store
                /\ count([rows |-> store', next_id |-> next_id'])
                     = count([rows |-> store, next_id |-> next_id])
                         + Len(pages) + Len(readme) + Len(examples)
                /\ \A i \in 1..Len(pages) :
                       added[i].text = pages[i] /\ TypeOf(added[i]) = "documentation"
                /\ \A i \in 1..Len(readme) :
                       /\ added[Len(pages) + i].text = readme[i]
                       /\ TypeOf(added[Len(pages) + i]) = "readme"
                /\ \A i \in 1..Len(examples) :
                       /\ added[Len(pages) + Len(readme) + i].text = examples[i]
                       /\ TypeOf(added[Len(pages) + Len(readme) + i]) = "code_example"]_vars

\* pages, a README and two examples, one of them longer than chunk_size, were
\* indexed into a table that held a record
C24_AllThreeIndexed ==
    /\ call.op = "index_content"
    /\ ~call.raised
    /\ Len(PageChunks(call.documentation)) = 2
    /\ Len(ReadmeChunks(call.github_info)) = 1
    /\ call.code_examples = <<"exShort", "exBig">>
    /\ TextLen("exBig") > chunk_size
    /\ Len(store) = 6
    /\ store[6].text = "exBig"

-----------------------------------------------------------------------------
(* C25 .. C29 (checked under SpecChunk).  A call that stays in the window    *)
(* loop returns no chunks, and these properties say nothing about it.        *)

Origin(ch) == ch[2]

ChunksReturned == pc = "returned"

Chunks == call.returned.val

\* C25: for a non-empty text, whitespace-only texts included, chunk_text
\* returns at least one chunk, and no chunk it returns is the empty string.
C25_NonEmptyChunks ==
    (ChunksReturned /\ call.text # <<>>)
        => /\ Chunks # <<>>
           /\ \A i \in 1..Len(Chunks) : Chunks[i] # <<>>

\* the length of the longest end of `left` that `right` begins with
Shared(left, right) ==
    LET fits == {k \in 0..Len(left) :
                    /\ k <= Len(right)
                    /\ SubSeq(left, Len(left) - k + 1, Len(left)) = SubSeq(right, 1, k)}
    IN CHOOSE k \in fits : \A m \in fits : k >= m

\* C26: the text two adjacent returned chunks share is never longer than the
\* chunker's chunk_overlap.
C26_OverlapBounded ==
    ChunksReturned =>
        \A i \in 1..(Len(Chunks) - 1) :
            Shared(Chunks[i], Chunks[i + 1]) <= call.self.chunk_overlap

\* C27: every returned chunk is at most chunk_size characters long.
C27_WithinChunkSize ==
    ChunksReturned => \A i \in 1..Len(Chunks) : Len(Chunks[i]) <= call.self.chunk_size

\* a chunk joined from two paragraphs and a chunk cut by the size-based split
\* (it ends inside a paragraph) were returned
C27_JoinedAndSplit ==
    /\ ChunksReturned
    /\ \E i \in 1..Len(Chunks) : \E j \in 1..Len(Chunks[i]) : Origin(Chunks[i][j]) = -1
    /\ \E i \in 1..Len(Chunks) :
           LET last == Origin(Last(Chunks[i])) IN
           /\ Len(Chunks[i]) = call.self.chunk_size
           /\ last + 2 <= Len(call.text)
           /\ ~IsSpace(call.text[last + 2])

\* the last paragraph of a paragraph chunk: what follows its last separator
LastParagraph(chunk) ==
    LET seps == {j \in 1..Len(chunk) : Origin(chunk[j]) = -1} IN
    IF seps = {} THEN chunk
    ELSE SubSeq(chunk, (CHOOSE j \in seps : \A k \in seps : j >= k) + 1, Len(chunk))

\* C28: with an overlap above 0, every paragraph chunk opened because the
\* next paragraph did not fit begins with the last paragraph of the chunk
\* closed before it, a closed chunk of one paragraph included.
C28_SeededWithLastParagraph ==
    (pc # "call" /\ call.self.chunk_overlap > 0)
        => \A i \in 1..(Len(call.semantic) - 1) :
               LET seed == LastParagraph(call.semantic[i]) IN
               /\ Len(call.semantic[i + 1]) >= Len(seed)
               /\ SubSeq(call.semantic[i + 1], 1, Len(seed)) = seed

\* C29: every non-whitespace character of a non-empty text is in a returned
\* chunk, and the characters of a chunk that come from the text stand in it
\* as they stand in the text.
C29_CoversInput ==
    (ChunksReturned /\ call.text # <<>>)
        => /\ \A n \in 1..Len(call.text) :
                  IsSpace(call.text[n])
                    \/ \E i \in 1..Len(Chunks) : \E j \in 1..Len(Chunks[i]) :
                           Chunks[i][j] = call.text[n]
           /\ \A i \in 1..Len(Chunks) : \A j \in 1..(Len(Chunks[i]) - 1) :
                  (Origin(Chunks[i][j]) >= 0 /\ Origin(Chunks[i][j + 1]) >= 0)
                      => Origin(Chunks[i][j + 1]) = Origin(Chunks[i][j]) + 1

\* the text was chunked by paragraphs and by size, into three chunks or more
C29_BothPaths ==
    /\ ChunksReturned
    /\ Len(call.semantic) >= 2
    /\ Len(Chunks) > Len(call.semantic)
    /\ \E n \in 1..Len(call.text) : Symbol(call.text[n]) = "."

-----------------------------------------------------------------------------
(* C30 (checked under SpecJson) *)

\* the completion holds a well-formed JSON object from its first "{" to its
\* last "}"
HoldsObject(text) ==
    \E i, j \in 1..Len(text) :
        /\ text[i] = "{" /\ \A m \in 1..(i - 1) : text[m] # "{"
        /\ text[j] = "}" /\ \A m \in (j + 1)..Len(text) : text[m] # "}"
        /\ SubSeq(text, i, j) \in {<<"{", "}">>, <<"{", "k", "}">>}

\* C30: when the completion arrives, generate_with_json raises nothing, and
\* returns the empty mapping if the completion holds no JSON object or a
\* malformed one; when the completion request fails, the failure escapes.
C30_EmptyMappingOnBadJson ==
    pc # "call" =>
        /\ call.out.ok => ~call.returned.val.raised
        /\ (call.out.ok /\ ~HoldsObject(call.out.content))
              => call.returned.val = Value(EmptyDict)
        /\ ~call.out.ok => call.returned.val.raised

\* a completion with braces around malformed JSON was answered with {}
C30_MalformedGivesEmpty ==
    /\ pc = "returned"
    /\ call.out.ok
    /\ call.out.content = <<"{", "x", "}">>
    /\ call.returned.val = Value(EmptyDict)

-----------------------------------------------------------------------------
(* C31, C38 (checked under SpecChunk) *)

\* C31: for a chunker constructed with 0 <= chunk_overlap < chunk_size, every
\* pass of the loop of _split_by_size starts its window after the start of the
\* pass before, and chunk_text returns.
C31_WindowsMoveForward ==
    (pc # "call" /\ 0 <= call.args[2] /\ call.args[2] < call.args[1])
        => /\ pc = "returned"
           /\ \A i \in 1..Len(call.starts) : \A j \in 1..(Len(call.starts[i]) - 1) :
                  call.starts[i][j + 1] > call.starts[i][j]

\* C38: the chunker uses the chunk_size and chunk_overlap it was constructed
\* with, 0 included, and with chunk_overlap = 0 no returned chunk begins with
\* text the chunk before it ends with.
C38_UsesGivenOverlap ==
    /\ call.self.chunk_size = call.args[1]
    /\ call.self.chunk_overlap = call.args[2]
    /\ (ChunksReturned /\ call.args[2] = 0)
          => \A i \in 1..(Len(Chunks) - 1) : Shared(Chunks[i], Chunks[i + 1]) = 0

-----------------------------------------------------------------------------
(* C32, C36 (checked under Spec) *)

\* C32: iteration_count is 0 in every reachable state of a run, so
\* should_continue never takes its iteration-cap branch: every routing
\* decision is the next_action the stage requested.
C32_IterationCountZero ==
    /\ Has(state, "iteration_count")
    /\ state["iteration_count"] = 0
    /\ should_continue(state) = Get(state, "next_action", "end")
    /\ (trace # <<>> /\ route.after = Last(trace)) =>
           route.key = Get(state, "next_action", "end")

\* a run went through all eight stages, routed after each conditional one
C32_RoutedToEnd ==
    /\ pc = "done"
    /\ Len(trace) = 8
    /\ route.after = "generate_code"
    /\ route.key = "validate_code"
    /\ state["iteration_count"] = 0

\* C36: confidence_score is always 0.0, 0.3 or 0.8 (tenths here); it is 0.0
\* until validate_code has run, and error_message is set exactly when
\* confidence_score is 0.3.
C36_ConfidenceValues ==
    /\ Has(state, "confidence_score")
    /\ state["confidence_score"] \in {0, 3, 8}
    /\ ~Ran("validate_code") => state["confidence_score"] = 0
    /\ Has(state, "error_message") <=> state["confidence_score"] = 3

\* validate_code ran with code naming the library, and no message was set
C36_HighConfidence ==
    /\ Ran("validate_code")
    /\ state["confidence_score"] = 8
    /\ ~Has(state, "error_message")

\* validate_code ran with code not naming the library
C36_LowConfidence ==
    /\ Ran("validate_code")
    /\ state["confidence_score"] = 3
    /\ Has(state, "error_message")

-----------------------------------------------------------------------------
(* C37 (checked under Spec) *)

\* the fields a stage assigns besides next_action
OutputFields(node) ==
    CASE node = "analyze_query" -> {"messages"}
      [] node = "search_documentation" -> {"search_results"}
      [] node = "crawl_documentation" -> {"crawled_documentation"}
      [] node = "analyze_github" -> {"github_info"}
      [] node = "extract_examples" -> {"code_examples"}
      [] node = "manage_context" -> {"relevant_context"}
      [] node = "generate_code" -> {"generated_code", "messages"}
      [] node = "validate_code" -> {"confidence_score", "error_message"}
      [] OTHER -> {}

\* the stage that writes each collected field
WrittenBy ==
    [search_results |-> "search_documentation",
     crawled_documentation |-> "crawl_documentation",
     github_info |-> "analyze_github",
     code_examples |-> "extract_examples",
     relevant_context |-> "manage_context",
     generated_code |-> "generate_code"]

\* C37: no step of a run changes library_name or task; a stage changes only
\* the fields it assigns and next_action; and search_results,
\* crawled_documentation, github_info, code_examples, relevant_context and
\* generated_code are changed by no stage other than the one that writes them,
\* so each keeps the value its stage gave it until the run ends.
C37_StagesKeepEarlierFields ==
    [][/\ DOMAIN state \subseteq DOMAIN state'
       /\ state'["library_name"] = state["library_name"]
       /\ state'["task"] = state["task"]
       /\ \A k \in DOMAIN state' :
              (k \notin DOMAIN state \/ state'[k] # state[k]) =>
                  k \in OutputFields(pc) \cup {"next_action"}
       /\ \A k \in DOMAIN WrittenBy :
              (WrittenBy[k] # pc /\ k \in DOMAIN state) => state'[k] = state[k]]_vars

\* a run ended with every collected field written and non-empty
C37_AllFieldsWritten ==
    /\ pc = "done"
    /\ \A k \in DOMAIN WrittenBy : Has(state, k)
    /\ state["search_results"] # EmptyList
    /\ state["crawled_documentation"] # EmptyDict
    /\ state["github_info"] # EmptyDict
    /\ state["code_examples"] # EmptyList
    /\ state["relevant_context"] # EmptyList
    /\ state["generated_code"] # <<>>

-----------------------------------------------------------------------------
(* C33 (checked under SpecRetrieve) *)

NeedsExamples == \E keyword \in BoostKeywords : Contains(Lower(call.query), keyword)

IsExample(r) == Get(r.metadata, "type", PyNone) = "code_example"

\* the place of the candidate `id` in the list the search returned
SearchRank(id) == CHOOSE i \in 1..Len(call.results) : call.results[i].id = id

\* C33: when the query contains a boost keyword, a code_example candidate is
\* ranked below a non-example candidate of less or equal raw similarity only
\* if the search had already returned it below that candidate, whatever the
\* sign of the similarities.
C33_ExamplesNotDemoted ==
    (pc = "returned" /\ NeedsExamples) =>
        \A i, j \in 1..Len(call.filtered_results) :
            LET other == call.filtered_results[i]
                example == call.filtered_results[j]
            IN (/\ i < j
                /\ ~IsExample(other)
                /\ IsExample(example)
                /\ other.similarity <= example.similarity)
                   => SearchRank(other.id) < SearchRank(example.id)

-----------------------------------------------------------------------------
(* C35 (checked under SpecIndex) *)

\* C35: a call of index_content whose batch embedding call fails inserts no
\* record: the table, the next id and count() are what they were before the
\* call.
C35_FailedEmbeddingStoresNothing ==
    [][(call'.op = "index_content" /\ call'.raised) =>
          /\ call'.embedded # None
          /\ store' = store
          /\ next_id' = next_id
          /\ count([rows |-> store', next_id |-> next_id'])
                 = count([rows |-> store, next_id |-> next_id])]_vars

\* the embedding of a batch of several chunks failed on a table that held rows
C35_BatchFailedOnFilledStore ==
    /\ call.op = "index_content"
    /\ call.raised
    /\ call.embedded # None
    /\ Len(call.embedded.val) >= 2
    /\ store # <<>>

-----------------------------------------------------------------------------
(* C34 (checked under Spec) *)

\* the texts manage_context indexes from the run's own collected material
OwnTexts ==
    LET chunks == all_chunks(Get(state, "crawled_documentation", EmptyDict),
                             Get(state, "github_info", EmptyDict),
                             Get(state, "code_examples", EmptyList))
    IN {chunks[i].text : i \in 1..Len(chunks)}

\* C34: every text in a run's relevant_context is the text of a chunk indexed
\* from that run's own crawled documentation, README or code examples, never
\* a text another run left in the shared store.
C34_OnlyOwnContext ==
    Has(state, "relevant_context") =>
        Range(state["relevant_context"]) \subseteq OwnTexts
====
